---- MODULE Spec2Model ----
(***************************************************************************)
(* RahaSoldi-IMS: the App component (local inventory and sales, optimistic *)
(* updates, remote writes through the hosted-database client, refetch on   *)
(* failure), the SalesTerminal (cart, product selection, checkout), the    *)
(* InventoryManager dialogs, and the FinancialReport aggregation.          *)
(*                                                                         *)
(* An async handler suspended at an `await` is a record in `tasks`; the    *)
(* remote store handling the request and the handler resuming with the     *)
(* response are one step.  Money and quantities are integers.              *)
(***************************************************************************)
EXTENDS Integers, Sequences, FiniteSets, TLC

\* ------------------------------------------------------------------ bounds
\* Calls of the App's write handlers (add, update, delete, sale) per run.
MaxOps == 2
\* Stock adjustments per run when only they and the terminal are driven.
MaxAdjustments == 3
\* Item edits per run when only they and one sale are driven.
MaxEdits == 2
\* Largest value typed or stepped into the quantity box of the terminal.
MaxQtyInput == 1
\* Lines of a cart handed straight to handleCompleteSale.
MaxLines == 2
\* Presses of Generate Business Report per run.
MaxAnalyses == 2

\* ------------------------------------------------------------ plain values
Null == [null |-> TRUE]
\* useState<string | null>(null) for an id: no id.
NoId == 0

Range(s) == {s[i] : i \in DOMAIN s}

\* Array.prototype.reduce((acc, x) => acc + f(x), 0): a left fold from 0.
RECURSIVE ReduceSum(_, _)
ReduceSum(xs, acc) ==
    IF xs = <<>> THEN acc ELSE ReduceSum(Tail(xs), acc + Head(xs))

\* Array.prototype.findIndex with a test `x => x[field] === value`, 1-based:
\* the first index passing the test; 0 stands for JavaScript's -1.
\* (Array.prototype.filter is SelectSeq.)
FindIndex(xs, field, value) ==
    IF \E i \in DOMAIN xs : xs[i][field] = value
    THEN CHOOSE i \in DOMAIN xs :
             xs[i][field] = value /\ \A j \in 1..(i - 1) : xs[j][field] # value
    ELSE 0

\* String.prototype.includes on strings held as sequences of characters.
Includes(s, t) ==
    \E i \in 0..(Len(s) - Len(t)) : SubSeq(s, i + 1, i + Len(t)) = t

\* String.prototype.toLowerCase
LowerChar(c) ==
    CASE c = "A" -> "a" [] c = "B" -> "b" [] c = "R" -> "r" [] c = "U" -> "u"
      [] OTHER -> c
ToLowerCase(s) == [i \in DOMAIN s |-> LowerChar(s[i])]

\* ------------------------------------------------------------------- time
\* An instant is a number of hours since the epoch.  An ISO string
\* "YYYY-MM-DDTHH:..Z" is held as its UTC date (a day number) and hour; a
\* date string "YYYY-MM-DD" as its date alone.
HoursPerDay == 24

\* Date.prototype.toISOString
ToISOString(instant) ==
    [date |-> instant \div HoursPerDay, time |-> instant % HoursPerDay]

\* new Date(string).getTime(): a date-only string is midnight UTC.
GetTime(str) ==
    IF "time" \in DOMAIN str THEN str.date * HoursPerDay + str.time
    ELSE str.date * HoursPerDay

\* ---------------------------------------------------------------- records
\* InventoryItem (types: id, name, quantity, costPrice, salesPrice,
\* lastUpdated).  category and lowStockThreshold are carried by no handler
\* modelled here other than as opaque form fields and are left out.
MkItem(id, name, quantity, costPrice, salesPrice, lastUpdated) ==
    [id |-> id, name |-> name, quantity |-> quantity, costPrice |-> costPrice,
     salesPrice |-> salesPrice, lastUpdated |-> lastUpdated]

\* The rows of the remote inventory table when the application is opened.
SeedInventory ==
    << MkItem(1, <<"a">>, 2, 1, 2, ToISOString(0)),
       MkItem(2, <<"b">>, 1, 2, 3, ToISOString(0)) >>

\* What the add/edit form can hold when it is submitted.
Forms ==
    { [name |-> <<"c">>, quantity |-> 1, costPrice |-> 1, salesPrice |-> 3] }

\* { ...a, ...b }: the fields of b over the fields of a.
Spread(a, b) ==
    [f \in (DOMAIN a) \cup (DOMAIN b) |-> IF f \in DOMAIN b THEN b[f] ELSE a[f]]

VARIABLES
    activeView,        \* App: which view is shown
    loading,           \* App: the loading screen replaces the whole UI
    inventory,         \* App: local inventory (array of InventoryItem)
    sales,             \* App: local sales (array of SaleRecord)
    remoteInventory,   \* hosted database: table inventory, in insertion order
    remoteSales,       \* hosted database: table sales, in insertion order
    tasks,             \* async handlers suspended at an await
    now,               \* clock and source of generated identifiers
    cart,              \* SalesTerminal
    searchTerm,        \* SalesTerminal
    selectedProduct,   \* SalesTerminal: the InventoryItem object clicked, or Null
    qtyInput,          \* SalesTerminal
    lineHeldBy,        \* per cart line object: ids of the local sales whose
                       \* items array holds that very object
    isModalOpen,       \* InventoryManager: add/edit dialog
    editingId,         \* InventoryManager: id being edited, or NoId
    adjustItem,        \* InventoryManager: item of the stock dialog, or Null
    adjustQty,         \* InventoryManager: text in the stock dialog's box
    analysis,          \* AIInsights: the text shown, or Null
    insightsLoading,   \* AIInsights: loading
    insightsRequest,   \* AIInsights: id of the request whose continuation
                       \* holds the mounted instance's setters, or NoId
    ev,                \* what the last step did: handler, outcome, alert shown
    expenses,          \* FinancialReport: the expenses prop
    timeRange,         \* FinancialReport: the selected window
    timezone,          \* the browser's offset of local time from UTC, hours
    listSearchTerm,    \* SalesHistory / ExpensesManager: searchTerm
    listStartDate,     \* SalesHistory / ExpensesManager: startDate, "" as Null
    listEndDate,       \* SalesHistory / ExpensesManager: endDate, "" as Null
    selectedCategory   \* ExpensesManager: the category filter

appVars == <<activeView, loading, inventory, sales>>
remoteVars == <<remoteInventory, remoteSales>>
terminalVars == <<cart, searchTerm, selectedProduct, qtyInput, lineHeldBy>>
managerVars == <<isModalOpen, editingId, adjustItem, adjustQty>>
insightsVars == <<analysis, insightsLoading, insightsRequest>>
listVars == <<listSearchTerm, listStartDate, listEndDate, selectedCategory>>
vars == <<activeView, loading, inventory, sales, remoteInventory, remoteSales,
          tasks, now, cart, searchTerm, selectedProduct, qtyInput, lineHeldBy,
          isModalOpen, editingId, adjustItem, adjustQty,
          analysis, insightsLoading, insightsRequest, ev,
          expenses, timeRange, timezone,
          listSearchTerm, listStartDate, listEndDate, selectedCategory>>

\* task: the handler call the step belongs to (for fetchData, the call whose
\* catch block started it; 0 for the fetch on mount and for plain input).
EventOf(op, res, alert, task) ==
    [op |-> op, res |-> res, alert |-> alert, task |-> task]
Event(op, res, alert) == EventOf(op, res, alert, 0)

\* A step of the App or of the views it renders records what it did; the
\* inputs of the FinancialReport and the filters of the list views
\* (SalesHistory, ExpensesManager) are not touched by any of them.
Step(event) ==
    /\ ev' = event
    /\ UNCHANGED <<expenses, timeRange, timezone, listVars>>

\* useState initial values of a freshly mounted SalesTerminal.
TerminalMounted ==
    /\ cart' = <<>>
    /\ searchTerm' = <<>>
    /\ selectedProduct' = Null
    /\ qtyInput' = 1
    /\ lineHeldBy' = <<>>

\* useState initial values of a freshly mounted InventoryManager.
ManagerMounted ==
    /\ isModalOpen' = FALSE
    /\ editingId' = NoId
    /\ adjustItem' = Null
    /\ adjustQty' = <<>>

\* useState initial values of a freshly mounted AIInsights; the setters held
\* by a request of the old instance no longer reach the screen.
InsightsMounted ==
    /\ analysis' = Null
    /\ insightsLoading' = FALSE
    /\ insightsRequest' = NoId

\* The component tree below App is replaced: every child loses its state.
ChildrenRemounted == TerminalMounted /\ ManagerMounted /\ InsightsMounted

\* ------------------------------------------------------------- fetchData
FetchTask(cause) ==
    [fn |-> "fetchData", stage |-> "inventory", cause |-> cause]

\* A write failed: the catch block of the handler suspended as t alerts and
\* calls fetchData, which runs up to its first await: setLoading(true), then
\* the inventory select.  The loading screen replaces the views.
CatchAndRefetch(t, op, message) ==
    /\ tasks' = (tasks \ {t}) \cup {FetchTask(t.id)}
    /\ loading' = TRUE
    /\ ChildrenRemounted
    /\ Step(EventOf(op, "error", message, t.id))
    /\ UNCHANGED <<activeView, inventory, sales, remoteVars, now>>

Init ==
    /\ activeView = "dashboard"
    /\ loading = TRUE
    /\ inventory = <<>>
    /\ sales = <<>>
    /\ remoteInventory = SeedInventory
    /\ remoteSales = <<>>
    /\ tasks = {FetchTask(0)}
    /\ now = 0
    /\ cart = <<>>
    /\ searchTerm = <<>>
    /\ selectedProduct = Null
    /\ qtyInput = 1
    /\ lineHeldBy = <<>>
    /\ isModalOpen = FALSE
    /\ editingId = NoId
    /\ adjustItem = Null
    /\ adjustQty = <<>>
    /\ analysis = Null
    /\ insightsLoading = FALSE
    /\ insightsRequest = NoId
    /\ ev = Event("mount", "", "")
    /\ expenses = <<>>
    /\ timeRange = "30d"
    /\ timezone = 0
    /\ listSearchTerm = <<>>
    /\ listStartDate = Null
    /\ listEndDate = Null
    /\ selectedCategory = "All"

\* .order('timestamp', { ascending: false }): insertion sort, newest first.
RECURSIVE InsertByTimestampDesc(_, _)
InsertByTimestampDesc(s, sorted) ==
    IF sorted = <<>> THEN <<s>>
    ELSE IF GetTime(s.timestamp) > GetTime(Head(sorted).timestamp)
         THEN <<s>> \o sorted
         ELSE <<Head(sorted)>> \o InsertByTimestampDesc(s, Tail(sorted))

RECURSIVE OrderByTimestampDesc(_)
OrderByTimestampDesc(rows) ==
    IF rows = <<>> THEN <<>>
    ELSE InsertByTimestampDesc(Head(rows), OrderByTimestampDesc(Tail(rows)))

\* Mutant of FetchInventoryReturns: no `finally`, a failed select leaves
\* loading as it is.
FetchInventoryReturnsNoFinally(t, ok) ==
    /\ t \in tasks /\ t.fn = "fetchData" /\ t.stage = "inventory"
    /\ IF ok
       THEN /\ inventory' = remoteInventory
            /\ tasks' = (tasks \ {t}) \cup {[t EXCEPT !.stage = "sales"]}
            /\ Step(EventOf("fetchData.inventory", "ok", "", t.cause))
       ELSE /\ inventory' = inventory
            /\ tasks' = tasks \ {t}
            /\ Step(EventOf("fetchData.inventory", "error", "", t.cause))
    /\ UNCHANGED <<activeView, loading, sales, remoteVars, now, terminalVars,
                   managerVars, insightsVars>>

\* The inventory select returns: data, or an error that is thrown to the
\* catch (logged only) and then `finally` clears loading.
FetchInventoryReturns(t, ok) ==
    /\ t \in tasks /\ t.fn = "fetchData" /\ t.stage = "inventory"
    /\ IF ok
       THEN /\ inventory' = remoteInventory
            /\ tasks' = (tasks \ {t}) \cup {[t EXCEPT !.stage = "sales"]}
            /\ loading' = loading
            /\ Step(EventOf("fetchData.inventory", "ok", "", t.cause))
       ELSE /\ inventory' = inventory
            /\ tasks' = tasks \ {t}
            /\ loading' = FALSE
            /\ Step(EventOf("fetchData.inventory", "error", "", t.cause))
    /\ UNCHANGED <<activeView, sales, remoteVars, now, terminalVars, managerVars, insightsVars>>

\* The sales select returns; either way `finally` clears loading.  The rows
\* delivered are new objects: no cart line is held by a local sale any more.
FetchSalesReturns(t, ok) ==
    /\ t \in tasks /\ t.fn = "fetchData" /\ t.stage = "sales"
    /\ sales' = IF ok THEN OrderByTimestampDesc(remoteSales) ELSE sales
    /\ tasks' = tasks \ {t}
    /\ loading' = FALSE
    /\ lineHeldBy' = IF ok THEN [i \in DOMAIN lineHeldBy |-> {}] ELSE lineHeldBy
    /\ Step(EventOf("fetchData.sales", IF ok THEN "ok" ELSE "error", "", t.cause))
    /\ UNCHANGED <<activeView, inventory, remoteVars, now, managerVars, insightsVars,
                   cart, searchTerm, selectedProduct, qtyInput>>

\* --------------------------------------------------------- handleAddItem
NewItemId(stamp) == 10 + stamp

\* Mutant of HandleAddItem: the record inserted gets an id of its own.
HandleAddItemTwoIds(item) ==
    LET stamp == now + 1
        newItem == Spread(item, [id |-> NewItemId(stamp),
                                 lastUpdated |-> ToISOString(stamp)])
    IN /\ now' = stamp
       /\ inventory' = Append(inventory, newItem)
       /\ tasks' = tasks \cup
              {[fn |-> "handleAddItem", id |-> stamp,
                newItem |-> [newItem EXCEPT !.id = NewItemId(stamp + 1)]]}
       /\ Step(EventOf("handleAddItem", "", "", stamp))
       /\ UNCHANGED <<activeView, loading, sales, remoteVars>>

\* handleAddItem up to its await: build newItem, append it locally, insert.
HandleAddItem(item) ==
    LET stamp == now + 1
        newItem == Spread(item, [id |-> NewItemId(stamp),
                                 lastUpdated |-> ToISOString(stamp)])
    IN /\ now' = stamp
       /\ inventory' = Append(inventory, newItem)
       /\ tasks' = tasks \cup
              {[fn |-> "handleAddItem", id |-> stamp, newItem |-> newItem]}
       /\ Step(EventOf("handleAddItem", "", "", stamp))
       /\ UNCHANGED <<activeView, loading, sales, remoteVars>>

\* Mutant of AddItemInsertReturns: a failed insert is sent again.
AddItemInsertRetries(t, ok) ==
    /\ t \in tasks /\ t.fn = "handleAddItem"
    /\ remoteInventory' =
           IF ok THEN Append(remoteInventory, t.newItem) ELSE remoteInventory
    /\ tasks' = IF ok THEN tasks \ {t} ELSE tasks
    /\ Step(EventOf("handleAddItem.insert", IF ok THEN "ok" ELSE "error", "",
                     t.id))
    /\ UNCHANGED <<appVars, remoteSales, now, terminalVars, managerVars, insightsVars>>

AddItemInsertReturns(t, ok) ==
    /\ t \in tasks /\ t.fn = "handleAddItem"
    /\ IF ok
       THEN /\ remoteInventory' = Append(remoteInventory, t.newItem)
            /\ tasks' = tasks \ {t}
            /\ Step(EventOf("handleAddItem.insert", "ok", "", t.id))
            /\ UNCHANGED <<appVars, remoteSales, now, terminalVars, managerVars, insightsVars>>
       ELSE CatchAndRefetch(t, "handleAddItem.insert",
                            "Failed to save item to database.")

\* ------------------------------------------------------ handleUpdateItem
\* prev.map(item => item.id === id ? { ...item, ...finalUpdates } : item)
ApplyUpdates(items, id, finalUpdates) ==
    [i \in DOMAIN items |->
        IF items[i].id = id THEN Spread(items[i], finalUpdates) ELSE items[i]]

\* .update(fields).eq('id', id) on a table
UpdateRows(rows, id, fields) == ApplyUpdates(rows, id, fields)

\* Mutant of HandleUpdateItem: the matching item is replaced by the update.
HandleUpdateItemReplacing(id, updates) ==
    LET stamp == now + 1
        finalUpdates == Spread(updates, [lastUpdated |-> ToISOString(stamp)])
    IN /\ now' = stamp
       /\ inventory' = [i \in DOMAIN inventory |->
                            IF inventory[i].id = id
                            THEN Spread(MkItem(id, <<>>, 0, 0, 0, ToISOString(0)),
                                        finalUpdates)
                            ELSE inventory[i]]
       /\ tasks' = tasks \cup
              {[fn |-> "handleUpdateItem", id |-> stamp, itemId |-> id,
                finalUpdates |-> finalUpdates]}
       /\ Step(EventOf("handleUpdateItem", "", "", stamp))
       /\ UNCHANGED <<activeView, loading, sales, remoteVars>>

\* Mutant of HandleUpdateItem: a new price or cost is also written into the
\* lines of the recorded sales of the item.
HandleUpdateItemRepricing(id, updates) ==
    LET stamp == now + 1
        finalUpdates == Spread(updates, [lastUpdated |-> ToISOString(stamp)])
        Reprice(line) ==
            IF line.itemId # id THEN line
            ELSE [line EXCEPT
                    !.priceAtSale = IF "salesPrice" \in DOMAIN updates
                                    THEN updates.salesPrice ELSE @,
                    !.costAtSale = IF "costPrice" \in DOMAIN updates
                                   THEN updates.costPrice ELSE @]
    IN /\ now' = stamp
       /\ inventory' = ApplyUpdates(inventory, id, finalUpdates)
       /\ sales' = [k \in DOMAIN sales |->
                       [sales[k] EXCEPT
                          !.items = [i \in DOMAIN @ |-> Reprice(@[i])]]]
       /\ tasks' = tasks \cup
              {[fn |-> "handleUpdateItem", id |-> stamp, itemId |-> id,
                finalUpdates |-> finalUpdates]}
       /\ Step(EventOf("handleUpdateItem", "", "", stamp))
       /\ UNCHANGED <<activeView, loading, remoteVars>>

HandleUpdateItem(id, updates) ==
    LET stamp == now + 1
        finalUpdates == Spread(updates, [lastUpdated |-> ToISOString(stamp)])
    IN /\ now' = stamp
       /\ inventory' = ApplyUpdates(inventory, id, finalUpdates)
       /\ tasks' = tasks \cup
              {[fn |-> "handleUpdateItem", id |-> stamp, itemId |-> id,
                finalUpdates |-> finalUpdates]}
       /\ Step(EventOf("handleUpdateItem", "", "", stamp))
       /\ UNCHANGED <<activeView, loading, sales, remoteVars>>

UpdateItemReturns(t, ok) ==
    /\ t \in tasks /\ t.fn = "handleUpdateItem"
    /\ IF ok
       THEN /\ remoteInventory' =
                  UpdateRows(remoteInventory, t.itemId, t.finalUpdates)
            /\ tasks' = tasks \ {t}
            /\ Step(EventOf("handleUpdateItem.update", "ok", "", t.id))
            /\ UNCHANGED <<appVars, remoteSales, now, terminalVars, managerVars, insightsVars>>
       ELSE CatchAndRefetch(t, "handleUpdateItem.update",
                            "Failed to update item in database.")

\* ------------------------------------------------------ handleDeleteItem
\* prev.filter(item => item.id !== id)
RemoveById(items, id) == LET Keep(item) == item.id # id IN SelectSeq(items, Keep)

\* Mutant of HandleDeleteItem: the answer to window.confirm is not used.
HandleDeleteItemUnasked(id, confirmed) ==
    LET stamp == now + 1
    IN /\ now' = stamp
       /\ inventory' = RemoveById(inventory, id)
       /\ tasks' = tasks \cup
              {[fn |-> "handleDeleteItem", id |-> stamp, itemId |-> id]}
       /\ Step(EventOf("handleDeleteItem",
                        IF confirmed THEN "" ELSE "declined", "", stamp))
       /\ UNCHANGED <<activeView, loading, sales, remoteVars>>

\* window.confirm answered by `confirmed`; declined: nothing happens.
HandleDeleteItem(id, confirmed) ==
    LET stamp == now + 1
    IN /\ IF confirmed
          THEN /\ now' = stamp
               /\ inventory' = RemoveById(inventory, id)
               /\ tasks' = tasks \cup
                      {[fn |-> "handleDeleteItem", id |-> stamp, itemId |-> id]}
               /\ Step(EventOf("handleDeleteItem", "", "", stamp))
          ELSE /\ UNCHANGED <<now, inventory, tasks>>
               /\ Step(Event("handleDeleteItem", "declined", ""))
       /\ UNCHANGED <<activeView, loading, sales, remoteVars>>

DeleteItemReturns(t, ok) ==
    /\ t \in tasks /\ t.fn = "handleDeleteItem"
    /\ IF ok
       THEN /\ remoteInventory' = RemoveById(remoteInventory, t.itemId)
            /\ tasks' = tasks \ {t}
            /\ Step(EventOf("handleDeleteItem.delete", "ok", "", t.id))
            /\ UNCHANGED <<appVars, remoteSales, now, terminalVars, managerVars, insightsVars>>
       ELSE CatchAndRefetch(t, "handleDeleteItem.delete",
                            "Failed to delete item from database.")

\* ---------------------------------------------------- handleCompleteSale
\* items.reduce((sum, item) => sum + (item.quantity * item.priceAtSale), 0)
SaleAmount(items) ==
    ReduceSum([i \in DOMAIN items |-> items[i].quantity * items[i].priceAtSale], 0)

\* Mutant of SaleCost: the line quantity is forgotten.
SaleCostPerUnit(items) ==
    ReduceSum([i \in DOMAIN items |-> items[i].costAtSale], 0)

\* items.reduce((sum, item) => sum + (item.quantity * item.costAtSale), 0)
SaleCost(items) ==
    ReduceSum([i \in DOMAIN items |-> items[i].quantity * items[i].costAtSale], 0)

NewSale(items, stamp) ==
    [id |-> stamp, items |-> items, totalAmount |-> SaleAmount(items),
     totalProfit |-> SaleAmount(items) - SaleCost(items),
     timestamp |-> ToISOString(stamp)]

\* Mutant of DecrementStock: the line's quantity is stored as the new stock.
RECURSIVE DecrementStockStoresSold(_, _, _)
DecrementStockStoresSold(newInventory, items, stamp) ==
    IF items = <<>> THEN newInventory
    ELSE LET saleItem == Head(items)
             productIndex == FindIndex(newInventory, "id", saleItem.itemId)
         IN DecrementStockStoresSold(
                IF productIndex > 0
                THEN [newInventory EXCEPT ![productIndex] =
                         Spread(@, [quantity |-> saleItem.quantity,
                                    lastUpdated |-> ToISOString(stamp)])]
                ELSE newInventory,
                Tail(items), stamp)

\* The forEach over the cart that builds newInventory from a copy of the
\* inventory: each line decrements the item found by findIndex, if any.
RECURSIVE DecrementStock(_, _, _)
DecrementStock(newInventory, items, stamp) ==
    IF items = <<>> THEN newInventory
    ELSE LET saleItem == Head(items)
             productIndex == FindIndex(newInventory, "id", saleItem.itemId)
         IN DecrementStock(
                IF productIndex > 0
                THEN [newInventory EXCEPT ![productIndex] =
                         Spread(@, [quantity |-> @.quantity - saleItem.quantity,
                                    lastUpdated |-> ToISOString(stamp)])]
                ELSE newInventory,
                Tail(items), stamp)

\* inventory.find(i => i.id === itemId) on the inventory the handler closed
\* over; Null stands for undefined.
FindItem(items, itemId) ==
    LET idx == FindIndex(items, "id", itemId)
    IN IF idx > 0 THEN items[idx] ELSE Null

\* The for-loop after line k: the next cart line whose item is found in the
\* closed-over inventory, or 0 when the loop is over.
NextSaleLine(t, k) ==
    LET later == {j \in DOMAIN t.items :
                     j > k /\ FindItem(t.inventory, t.items[j].itemId) # Null}
    IN IF later = {} THEN 0 ELSE CHOOSE j \in later : \A i \in later : j <= i

\* Mutant of SaleUpdateRequest: the line is subtracted from the quantity of
\* the already decremented newInventory.
SaleUpdateRequestFromNewInventory(t, j, at) ==
    [quantity |->
         FindItem(DecrementStock(t.inventory, t.items, at),
                  t.items[j].itemId).quantity - t.items[j].quantity,
     lastUpdated |-> ToISOString(at)]

\* The update sent for cart line j: quantity from the closed-over inventory.
SaleUpdateRequest(t, j, at) ==
    [quantity |-> FindItem(t.inventory, t.items[j].itemId).quantity
                      - t.items[j].quantity,
     lastUpdated |-> ToISOString(at)]

\* The handler goes on after the await on line k (0: the sale insert).
SaleContinues(t, k) ==
    LET j == NextSaleLine(t, k)
    IN tasks' = (tasks \ {t}) \cup
           (IF j = 0 THEN {}
            ELSE {[t EXCEPT !.line = j, !.request = SaleUpdateRequest(t, j, now)]})

\* handleCompleteSale up to its first await.
HandleCompleteSale(items) ==
    LET stamp == now + 1
        newSale == NewSale(items, stamp)
    IN /\ now' = stamp
       /\ inventory' = DecrementStock(inventory, items, stamp)
       /\ sales' = <<newSale>> \o sales
       /\ tasks' = tasks \cup
              {[fn |-> "handleCompleteSale", id |-> stamp, newSale |-> newSale,
                items |-> items, inventory |-> inventory, line |-> 0,
                request |-> Null]}
       /\ Step(EventOf("handleCompleteSale", "", "", stamp))
       /\ UNCHANGED <<activeView, loading, remoteVars>>

\* Mutant of SaleInsertReturns: saleError is not looked at.
SaleInsertUnchecked(t, ok) ==
    /\ t \in tasks /\ t.fn = "handleCompleteSale" /\ t.line = 0
    /\ remoteSales' = IF ok THEN Append(remoteSales, t.newSale) ELSE remoteSales
    /\ SaleContinues(t, 0)
    /\ Step(EventOf("handleCompleteSale.insert", IF ok THEN "ok" ELSE "error",
                     "", t.id))
    /\ UNCHANGED <<appVars, remoteInventory, now, terminalVars, managerVars, insightsVars>>

\* 1. Record Sale: the insert returns; an error is thrown to the catch.
SaleInsertReturns(t, ok) ==
    /\ t \in tasks /\ t.fn = "handleCompleteSale" /\ t.line = 0
    /\ IF ok
       THEN /\ remoteSales' = Append(remoteSales, t.newSale)
            /\ SaleContinues(t, 0)
            /\ Step(EventOf("handleCompleteSale.insert", "ok", "", t.id))
            /\ UNCHANGED <<appVars, remoteInventory, now, terminalVars, managerVars, insightsVars>>
       ELSE CatchAndRefetch(t, "handleCompleteSale.insert",
                "Error saving sale to database. Please check connection.")

\* 2. Update Inventory Quantities: one update returns.  Its result is not
\* looked at: the loop goes on whether or not the row was written.
SaleUpdateReturns(t, ok) ==
    /\ t \in tasks /\ t.fn = "handleCompleteSale" /\ t.line > 0
    /\ remoteInventory' =
           IF ok THEN UpdateRows(remoteInventory, t.items[t.line].itemId, t.request)
           ELSE remoteInventory
    /\ SaleContinues(t, t.line)
    /\ Step(EventOf("handleCompleteSale.update", IF ok THEN "ok" ELSE "error",
                   "", t.id))
    /\ UNCHANGED <<appVars, remoteSales, now, terminalVars, managerVars, insightsVars>>

\* ------------------------------------------------------------- navigation
\* "dashboard" also stands for the history and insights views: like it,
\* they only read the inventory and the sales.
Views == {"dashboard", "inventory", "pos"}

\* NavItem onClick: another view is rendered, the old one unmounts.
SetActiveView(view) ==
    /\ ~loading
    /\ view # activeView
    /\ activeView' = view
    /\ ChildrenRemounted
    /\ Step(Event("setActiveView", "", ""))
    /\ UNCHANGED <<loading, inventory, sales, remoteVars, tasks, now>>

\* ------------------------------------------------------- InventoryManager
managerShown == ~loading /\ activeView = "inventory"
noDialog == ~isModalOpen /\ adjustItem = Null

\* parseInt on a string held as a sequence of characters: an optional sign,
\* then the leading digits; NaN when there is none.
NaN == [nan |-> TRUE]
Number(n) == [nan |-> FALSE, value |-> n]
IsNaN(x) == x.nan
Digits == <<"0", "1", "2", "3", "4", "5", "6", "7", "8", "9">>
IsDigit(c) == \E d \in DOMAIN Digits : Digits[d] = c
DigitValue(c) == (CHOOSE d \in DOMAIN Digits : Digits[d] = c) - 1

RECURSIVE ParseDigits(_, _)
ParseDigits(text, acc) ==
    IF text = <<>> \/ ~IsDigit(Head(text)) THEN acc
    ELSE ParseDigits(Tail(text), 10 * acc + DigitValue(Head(text)))

\* Number.prototype.toString for an integer
RECURSIVE DigitsOf(_)
DigitsOf(n) ==
    IF n < 10 THEN <<Digits[n + 1]>>
    ELSE DigitsOf(n \div 10) \o <<Digits[(n % 10) + 1]>>

NumberToString(n) == IF n < 0 THEN <<"-">> \o DigitsOf(0 - n) ELSE DigitsOf(n)

ParseInt(text) ==
    LET negative == text # <<>> /\ Head(text) = "-"
        digits == IF negative THEN Tail(text) ELSE text
    IN IF digits = <<>> \/ ~IsDigit(Head(digits)) THEN NaN
       ELSE IF negative THEN Number(0 - ParseDigits(digits, 0))
       ELSE Number(ParseDigits(digits, 0))

\* What can stand in the quantity box of the stock dialog on submit.
AdjustTexts == { <<>>, <<"-", "1">>, <<"1">> }

\* The Add Product button.
OpenAddModal ==
    /\ managerShown /\ noDialog
    /\ isModalOpen' = TRUE
    /\ Step(Event("dialog", "", ""))
    /\ UNCHANGED <<appVars, remoteVars, tasks, now, terminalVars, insightsVars,
                   editingId, adjustItem, adjustQty>>

\* handleEdit
HandleEdit(item) ==
    /\ managerShown /\ noDialog
    /\ item \in Range(inventory)
    /\ editingId' = item.id
    /\ isModalOpen' = TRUE
    /\ Step(Event("dialog", "", ""))
    /\ UNCHANGED <<appVars, remoteVars, tasks, now, terminalVars, insightsVars, adjustItem, adjustQty>>

\* resetForm from the Cancel and close buttons
ResetForm ==
    /\ managerShown /\ isModalOpen
    /\ isModalOpen' = FALSE
    /\ editingId' = NoId
    /\ Step(Event("dialog", "", ""))
    /\ UNCHANGED <<appVars, remoteVars, tasks, now, terminalVars, insightsVars, adjustItem, adjustQty>>

\* handleSubmit: onUpdate or onAdd with the form, then resetForm.
HandleSubmit(formData) ==
    /\ managerShown /\ isModalOpen
    /\ IF editingId # NoId
       THEN HandleUpdateItem(editingId, formData)
       ELSE HandleAddItem(formData)
    /\ isModalOpen' = FALSE
    /\ editingId' = NoId
    /\ UNCHANGED <<terminalVars, insightsVars, adjustItem, adjustQty>>

\* openAdjustModal
OpenAdjustModal(item) ==
    /\ managerShown /\ noDialog
    /\ item \in Range(inventory)
    /\ adjustItem' = item
    /\ adjustQty' = NumberToString(item.quantity)
    /\ Step(Event("dialog", "", ""))
    /\ UNCHANGED <<appVars, remoteVars, tasks, now, terminalVars, insightsVars,
                   isModalOpen, editingId>>

\* closeAdjustModal from the Cancel and close buttons
CloseAdjustModal ==
    /\ managerShown /\ adjustItem # Null
    /\ adjustItem' = Null
    /\ adjustQty' = <<>>
    /\ Step(Event("dialog", "", ""))
    /\ UNCHANGED <<appVars, remoteVars, tasks, now, terminalVars, insightsVars,
                   isModalOpen, editingId>>

\* onChange of the dialog's quantity box
SetAdjustQty(text) ==
    /\ managerShown /\ adjustItem # Null
    /\ text # adjustQty
    /\ adjustQty' = text
    /\ Step(Event("input", "", ""))
    /\ UNCHANGED <<appVars, remoteVars, tasks, now, terminalVars, insightsVars,
                   isModalOpen, editingId, adjustItem>>

\* handleStockAdjustment, the dialog's onSubmit
HandleStockAdjustment ==
    LET newQty == ParseInt(adjustQty)
    IN /\ managerShown /\ adjustItem # Null
       /\ IF ~IsNaN(newQty) /\ newQty.value >= 0
          THEN /\ HandleUpdateItem(adjustItem.id, [quantity |-> newQty.value])
               /\ adjustItem' = Null
               /\ adjustQty' = <<>>
          ELSE /\ Step(Event("handleStockAdjustment", "rejected",
                              "Please enter a valid non-negative quantity."))
               /\ UNCHANGED <<appVars, remoteVars, tasks, now, adjustItem,
                              adjustQty>>
       /\ UNCHANGED <<terminalVars, insightsVars, isModalOpen, editingId>>

\* The Delete button of a row, and the answer to window.confirm.
ClickDelete(item, confirmed) ==
    /\ managerShown /\ noDialog
    /\ item \in Range(inventory)
    /\ HandleDeleteItem(item.id, confirmed)
    /\ UNCHANGED <<terminalVars, managerVars, insightsVars>>

\* ---------------------------------------------------------- SalesTerminal
terminalShown == ~loading /\ activeView = "pos"

\* What can be typed into the terminal's search box.
SearchTerms == { <<>>, <<"a">> }

\* inventory.filter(item => item.name.toLowerCase().includes(term.toLowerCase()))
FilteredInventory ==
    LET Shown(item) == Includes(ToLowerCase(item.name), ToLowerCase(searchTerm))
    IN SelectSeq(inventory, Shown)

\* itemInCartTotal
ItemInCartTotal(lines, itemId) ==
    LET Same(i) == i.itemId = itemId
        same == SelectSeq(lines, Same)
    IN ReduceSum([i \in DOMAIN same |-> same[i].quantity], 0)

\* The search box.
SetSearchTerm(term) ==
    /\ terminalShown
    /\ term # searchTerm
    /\ searchTerm' = term
    /\ Step(Event("input", "", ""))
    /\ UNCHANGED <<appVars, remoteVars, tasks, now, managerVars, insightsVars,
                   cart, selectedProduct, qtyInput, lineHeldBy>>

\* A product card is clicked: the item object rendered is kept.
SelectProduct(item) ==
    /\ terminalShown
    /\ item \in Range(FilteredInventory)
    /\ item # selectedProduct
    /\ selectedProduct' = item
    /\ Step(Event("input", "", ""))
    /\ UNCHANGED <<appVars, remoteVars, tasks, now, managerVars, insightsVars,
                   cart, searchTerm, qtyInput, lineHeldBy>>

\* The quantity box and its - and + buttons, shown once a product is
\* selected: parseInt(value) || 0, Math.max(1, qtyInput - 1), qtyInput + 1.
SetQtyInput(qty) ==
    /\ terminalShown
    /\ selectedProduct # Null
    /\ qty # qtyInput
    /\ qtyInput' = qty
    /\ Step(Event("input", "", ""))
    /\ UNCHANGED <<appVars, remoteVars, tasks, now, managerVars, insightsVars,
                   cart, searchTerm, selectedProduct, lineHeldBy>>

Terminal(c, term, product, qty, alert) ==
    [cart |-> c, searchTerm |-> term, selectedProduct |-> product,
     qtyInput |-> qty, alert |-> alert]

\* Mutant of AddToCart: the quantity is not compared with the stock.
AddToCartAnyQuantity(c, term, product, qty) ==
    LET existingItemIndex ==
            IF product = Null THEN 0 ELSE FindIndex(c, "itemId", product.id)
    IN IF product = Null THEN Terminal(c, term, product, qty, "")
       ELSE IF qty <= 0
       THEN Terminal(c, term, product, qty, "Quantity must be greater than 0")
       ELSE IF existingItemIndex > 0
       THEN Terminal([c EXCEPT ![existingItemIndex].quantity = @ + qty],
                     <<>>, Null, 1, "")
       ELSE Terminal(Append(c, [itemId |-> product.id, name |-> product.name,
                                quantity |-> qty,
                                priceAtSale |-> product.salesPrice,
                                costAtSale |-> product.costPrice]),
                     <<>>, Null, 1, "")

\* Mutant of AddToCart: an accepted product always gets a line of its own.
AddToCartAppends(c, term, product, qty) ==
    IF product = Null \/ qty <= 0 \/ qty > product.quantity
    THEN Terminal(c, term, product, qty, "rejected")
    ELSE Terminal(Append(c, [itemId |-> product.id, name |-> product.name,
                             quantity |-> qty,
                             priceAtSale |-> product.salesPrice,
                             costAtSale |-> product.costPrice]),
                  <<>>, Null, 1, "")

\* addToCart as a function of the terminal's state: the state it leaves
\* and the alert it shows ("" for none).
AddToCart(c, term, product, qty) ==
    LET same == Terminal(c, term, product, qty, "")
        existingItemIndex ==
            IF product = Null THEN 0 ELSE FindIndex(c, "itemId", product.id)
        newItem == [itemId |-> product.id, name |-> product.name,
                    quantity |-> qty, priceAtSale |-> product.salesPrice,
                    costAtSale |-> product.costPrice]
    IN IF product = Null THEN same
       ELSE IF qty <= 0
       THEN [same EXCEPT !.alert = "Quantity must be greater than 0"]
       ELSE IF qty > product.quantity
       THEN [same EXCEPT !.alert = "Not enough stock."]
       ELSE IF existingItemIndex > 0
       THEN IF c[existingItemIndex].quantity + qty > product.quantity
            THEN [same EXCEPT !.alert = "Cannot add more."]
            ELSE Terminal([c EXCEPT ![existingItemIndex].quantity = @ + qty],
                          <<>>, Null, 1, "")
       ELSE Terminal(Append(c, newItem), <<>>, Null, 1, "")

\* lines[i].quantity += qty for the line object of the item.
QuantityAdded(lines, itemId, qty) ==
    [i \in DOMAIN lines |->
        IF lines[i].itemId = itemId
        THEN [lines[i] EXCEPT !.quantity = @ + qty] ELSE lines[i]]

\* The Add to Cart button: rendered for a selected product, and disabled
\* while the cart's total of it plus the quantity exceeds its stock.
\* `newCart[existingItemIndex].quantity += qtyInput` changes the line object
\* in place: every array that holds the object sees the new quantity.
AddToCartClick ==
    LET after == AddToCart(cart, searchTerm, selectedProduct, qtyInput)
        merged == after.alert = "" /\ Len(after.cart) = Len(cart)
        mutatedIn ==
            IF merged
            THEN lineHeldBy[FindIndex(cart, "itemId", selectedProduct.id)]
            ELSE {}
    IN /\ terminalShown
       /\ selectedProduct # Null
       /\ ~(ItemInCartTotal(cart, selectedProduct.id) + qtyInput
               > selectedProduct.quantity)
       /\ cart' = after.cart
       /\ searchTerm' = after.searchTerm
       /\ selectedProduct' = after.selectedProduct
       /\ qtyInput' = after.qtyInput
       /\ lineHeldBy' = IF Len(after.cart) > Len(cart)
                        THEN Append(lineHeldBy, {}) ELSE lineHeldBy
       /\ sales' = [k \in DOMAIN sales |->
                       IF sales[k].id \in mutatedIn
                       THEN [sales[k] EXCEPT !.items =
                                QuantityAdded(@, selectedProduct.id, qtyInput)]
                       ELSE sales[k]]
       /\ tasks' = {IF t.fn = "handleCompleteSale" /\ t.id \in mutatedIn
                    THEN [t EXCEPT !.items =
                             QuantityAdded(@, selectedProduct.id, qtyInput)]
                    ELSE t : t \in tasks}
       /\ Step(Event("addToCart",
                      IF after.alert = "" THEN "accepted" ELSE "rejected",
                      after.alert))
       /\ UNCHANGED <<activeView, loading, inventory, remoteVars, now,
                      managerVars, insightsVars>>

\* newCart.splice(index, 1), index counted from 1 here.
RemoveFromCart(index) ==
    /\ terminalShown
    /\ index \in DOMAIN cart
    /\ cart' = SubSeq(cart, 1, index - 1) \o SubSeq(cart, index + 1, Len(cart))
    /\ lineHeldBy' = SubSeq(lineHeldBy, 1, index - 1)
                         \o SubSeq(lineHeldBy, index + 1, Len(lineHeldBy))
    /\ Step(Event("removeFromCart", "", ""))
    /\ UNCHANGED <<appVars, remoteVars, tasks, now, managerVars, insightsVars,
                   searchTerm, selectedProduct, qtyInput>>

\* Mutant of HandleCheckout: no early return for an empty cart.
HandleCheckoutAlways(c) == [called |-> TRUE, items |-> c, cart |-> <<>>]

\* Mutant of HandleCheckout: the cart is not emptied after the sale.
HandleCheckoutKeepsCart(c) ==
    IF Len(c) = 0 THEN [called |-> FALSE, items |-> <<>>, cart |-> c]
    ELSE [called |-> TRUE, items |-> c, cart |-> c]

\* handleCheckout as a function of the cart: the cart passed to
\* onCompleteSale (none for an empty cart) and the cart left.
HandleCheckout(c) ==
    IF Len(c) = 0 THEN [called |-> FALSE, items |-> <<>>, cart |-> c]
    ELSE [called |-> TRUE, items |-> c, cart |-> <<>>]

\* The Complete Sale button, disabled while the cart is empty.  newSale.items
\* is the array passed: a line left in the cart is an object of the new sale.
HandleCheckoutClick ==
    LET out == HandleCheckout(cart)
    IN /\ terminalShown
       /\ Len(cart) # 0
       /\ out.called
       /\ HandleCompleteSale(out.items)
       /\ cart' = out.cart
       /\ lineHeldBy' = [i \in DOMAIN out.cart |->
                            lineHeldBy[i] \cup {Head(sales').id}]
       /\ UNCHANGED <<searchTerm, selectedProduct, qtyInput, managerVars, insightsVars>>

Next ==
    \/ \E t \in tasks, ok \in BOOLEAN : FetchInventoryReturns(t, ok)
    \/ \E t \in tasks, ok \in BOOLEAN : FetchSalesReturns(t, ok)
    \/ \E t \in tasks, ok \in BOOLEAN : AddItemInsertReturns(t, ok)
    \/ \E t \in tasks, ok \in BOOLEAN : UpdateItemReturns(t, ok)
    \/ \E t \in tasks, ok \in BOOLEAN : DeleteItemReturns(t, ok)
    \/ \E t \in tasks, ok \in BOOLEAN : SaleInsertReturns(t, ok)
    \/ \E t \in tasks, ok \in BOOLEAN : SaleUpdateReturns(t, ok)
    \/ \E view \in Views : SetActiveView(view)
    \/ OpenAddModal
    \/ \E item \in Range(inventory) : HandleEdit(item)
    \/ ResetForm
    \/ now < MaxOps /\ \E formData \in Forms : HandleSubmit(formData)
    \/ \E item \in Range(inventory) : OpenAdjustModal(item)
    \/ CloseAdjustModal
    \/ \E text \in AdjustTexts : SetAdjustQty(text)
    \/ now < MaxOps /\ HandleStockAdjustment
    \/ now < MaxOps /\ \E item \in Range(inventory), confirmed \in BOOLEAN :
           ClickDelete(item, confirmed)
    \/ \E item \in Range(inventory) : SelectProduct(item)
    \/ \E qty \in 0..MaxQtyInput : SetQtyInput(qty)
    \/ AddToCartClick
    \/ \E index \in DOMAIN cart : RemoveFromCart(index)
    \/ now < MaxOps /\ HandleCheckoutClick

Spec == Init /\ [][Next]_vars

\* ------------------------------------------- handleCompleteSale called alone
\* onCompleteSale is a prop: any array of SaleItem can be passed.  The lines
\* name a stocked item (1, 2) or an id the inventory does not hold (9).
SaleLine(itemId, name, quantity, priceAtSale, costAtSale) ==
    [itemId |-> itemId, name |-> name, quantity |-> quantity,
     priceAtSale |-> priceAtSale, costAtSale |-> costAtSale]

SaleItems ==
    { SaleLine(1, <<"a">>, 1, 2, 1), SaleLine(1, <<"a">>, 2, 3, 2),
      SaleLine(2, <<"b">>, 1, 3, 2), SaleLine(9, <<"c">>, 2, 3, 1) }

SeqsUpTo(S, n) == UNION {[1..k -> S] : k \in 0..n}

\* The application has loaded the seed inventory and shows the terminal;
\* `cart` holds the array that is about to be passed.
InitSale ==
    /\ activeView = "pos"
    /\ loading = FALSE
    /\ inventory = SeedInventory
    /\ sales = <<>>
    /\ remoteInventory = SeedInventory
    /\ remoteSales = <<>>
    /\ tasks = {}
    /\ now = 0
    /\ cart \in SeqsUpTo(SaleItems, MaxLines)
    /\ searchTerm = <<>>
    /\ selectedProduct = Null
    /\ qtyInput = 1
    /\ lineHeldBy = [i \in DOMAIN cart |-> {}]
    /\ isModalOpen = FALSE
    /\ editingId = NoId
    /\ adjustItem = Null
    /\ adjustQty = <<>>
    /\ analysis = Null
    /\ insightsLoading = FALSE
    /\ insightsRequest = NoId
    /\ ev = Event("mount", "", "")
    /\ expenses = <<>>
    /\ timeRange = "30d"
    /\ timezone = 0
    /\ listSearchTerm = <<>>
    /\ listStartDate = Null
    /\ listEndDate = Null
    /\ selectedCategory = "All"

CompleteSaleCall ==
    /\ ~loading
    /\ HandleCompleteSale(cart)
    /\ UNCHANGED <<terminalVars, managerVars, insightsVars>>

NextSale ==
    \/ now < MaxOps /\ CompleteSaleCall
    \/ \E t \in tasks, ok \in BOOLEAN : SaleInsertReturns(t, ok)
    \/ \E t \in tasks, ok \in BOOLEAN : SaleUpdateReturns(t, ok)
    \/ \E t \in tasks, ok \in BOOLEAN : FetchInventoryReturns(t, ok)
    \/ \E t \in tasks, ok \in BOOLEAN : FetchSalesReturns(t, ok)

SpecSale == InitSale /\ [][NextSale]_vars

\* ------------------------------- stock adjustments and the terminal only
\* The runs of the application in which the user only adjusts stock in the
\* inventory view and fills the cart in the terminal.
NextAdjustAndSell ==
    \/ \E t \in tasks, ok \in BOOLEAN : FetchInventoryReturns(t, ok)
    \/ \E t \in tasks, ok \in BOOLEAN : FetchSalesReturns(t, ok)
    \/ \E t \in tasks, ok \in BOOLEAN : UpdateItemReturns(t, ok)
    \/ \E view \in Views : SetActiveView(view)
    \/ \E item \in Range(inventory) : OpenAdjustModal(item)
    \/ \E text \in AdjustTexts : SetAdjustQty(text)
    \/ now < MaxAdjustments /\ HandleStockAdjustment
    \/ \E item \in Range(inventory) : SelectProduct(item)
    \/ AddToCartClick

SpecAdjustAndSell == Init /\ [][NextAdjustAndSell]_vars

\* ------------------------------------- item edits and the terminal only
\* The runs in which the user only edits items in the inventory view, up to
\* MaxEdits times, and then completes one sale in the terminal.
NextEditAndSell ==
    \/ \E t \in tasks, ok \in BOOLEAN : FetchInventoryReturns(t, ok)
    \/ \E t \in tasks, ok \in BOOLEAN : FetchSalesReturns(t, ok)
    \/ \E t \in tasks, ok \in BOOLEAN : UpdateItemReturns(t, ok)
    \/ \E t \in tasks, ok \in BOOLEAN : SaleInsertReturns(t, ok)
    \/ \E t \in tasks, ok \in BOOLEAN : SaleUpdateReturns(t, ok)
    \/ \E view \in Views : SetActiveView(view)
    \/ \E item \in Range(inventory) : HandleEdit(item)
    \/ now < MaxEdits /\ editingId # NoId /\ \E formData \in Forms :
           HandleSubmit(formData)
    \/ \E item \in Range(inventory) : SelectProduct(item)
    \/ AddToCartClick
    \/ now = MaxEdits /\ HandleCheckoutClick

SpecEditAndSell == Init /\ [][NextEditAndSell]_vars

\* ------------------------------- stock updates and sales, no failed call
\* The runs in which the user adjusts stock and sells, up to MaxOps writes
\* in all, and every call to the remote store succeeds.
NextWritesSucceed ==
    \/ \E t \in tasks : FetchInventoryReturns(t, TRUE)
    \/ \E t \in tasks : FetchSalesReturns(t, TRUE)
    \/ \E t \in tasks : UpdateItemReturns(t, TRUE)
    \/ \E t \in tasks : SaleInsertReturns(t, TRUE)
    \/ \E t \in tasks : SaleUpdateReturns(t, TRUE)
    \/ \E view \in Views : SetActiveView(view)
    \/ \E item \in Range(inventory) : OpenAdjustModal(item)
    \/ \E text \in AdjustTexts : SetAdjustQty(text)
    \/ now < MaxOps /\ HandleStockAdjustment
    \/ \E item \in Range(inventory) : SelectProduct(item)
    \/ AddToCartClick
    \/ now < MaxOps /\ HandleCheckoutClick

SpecWritesSucceed == Init /\ [][NextWritesSucceed]_vars

\* ------------------------------------- the terminal's handlers called alone
\* addToCart and handleCheckout are closures of SalesTerminal: their buttons
\* are disabled or not rendered for some states, the functions themselves
\* have their own early returns.  Here they are called in any state of the
\* terminal: any cart with one line per item, any selection, any quantity
\* that can be typed.
TerminalCarts ==
    {c \in SeqsUpTo(SaleItems, MaxLines) :
        \A i, j \in DOMAIN c : c[i].itemId = c[j].itemId => i = j}

TerminalProducts == {Null} \cup Range(SeedInventory)

TerminalQtys == -1 .. MaxQtyInput + 1

InitTerminal ==
    /\ activeView = "pos"
    /\ loading = FALSE
    /\ inventory = SeedInventory
    /\ sales = <<>>
    /\ remoteInventory = SeedInventory
    /\ remoteSales = <<>>
    /\ tasks = {}
    /\ now = 0
    /\ cart \in TerminalCarts
    /\ searchTerm \in SearchTerms
    /\ selectedProduct \in TerminalProducts
    /\ qtyInput \in TerminalQtys
    /\ lineHeldBy = [i \in DOMAIN cart |-> {}]
    /\ isModalOpen = FALSE
    /\ editingId = NoId
    /\ adjustItem = Null
    /\ adjustQty = <<>>
    /\ analysis = Null
    /\ insightsLoading = FALSE
    /\ insightsRequest = NoId
    /\ ev = Event("mount", "", "")
    /\ expenses = <<>>
    /\ timeRange = "30d"
    /\ timezone = 0
    /\ listSearchTerm = <<>>
    /\ listStartDate = Null
    /\ listEndDate = Null
    /\ selectedCategory = "All"

\* addToCart() whatever the button's state.
AddToCartCall ==
    LET after == AddToCart(cart, searchTerm, selectedProduct, qtyInput)
        merged == after.cart # cart /\ Len(after.cart) = Len(cart)
        mutatedIn ==
            IF merged
            THEN lineHeldBy[FindIndex(cart, "itemId", selectedProduct.id)]
            ELSE {}
    IN /\ terminalShown
       /\ cart' = after.cart
       /\ searchTerm' = after.searchTerm
       /\ selectedProduct' = after.selectedProduct
       /\ qtyInput' = after.qtyInput
       /\ lineHeldBy' = IF Len(after.cart) > Len(cart)
                        THEN Append(lineHeldBy, {}) ELSE lineHeldBy
       /\ sales' = [k \in DOMAIN sales |->
                       IF sales[k].id \in mutatedIn
                       THEN [sales[k] EXCEPT !.items =
                                QuantityAdded(@, selectedProduct.id, qtyInput)]
                       ELSE sales[k]]
       /\ tasks' = {IF t.fn = "handleCompleteSale" /\ t.id \in mutatedIn
                    THEN [t EXCEPT !.items =
                             QuantityAdded(@, selectedProduct.id, qtyInput)]
                    ELSE t : t \in tasks}
       /\ Step(Event("addToCart",
                      IF after.cart # cart THEN "accepted" ELSE "rejected",
                      after.alert))
       /\ UNCHANGED <<activeView, loading, inventory, remoteVars, now,
                      managerVars, insightsVars>>

\* handleCheckout() whatever the button's state.
HandleCheckoutCall ==
    LET out == HandleCheckout(cart)
    IN /\ terminalShown
       /\ IF out.called
          THEN /\ HandleCompleteSale(out.items)
               /\ lineHeldBy' = [i \in DOMAIN out.cart |->
                                    lineHeldBy[i] \cup {Head(sales').id}]
          ELSE /\ Step(Event("handleCheckout", "returned", ""))
               /\ UNCHANGED <<appVars, remoteVars, tasks, now, lineHeldBy>>
       /\ cart' = out.cart
       /\ UNCHANGED <<searchTerm, selectedProduct, qtyInput, managerVars,
                      insightsVars>>

NextTerminal ==
    \/ AddToCartCall
    \/ now < MaxOps /\ HandleCheckoutCall
    \/ \E item \in Range(inventory) : SelectProduct(item)
    \/ \E t \in tasks, ok \in BOOLEAN : SaleInsertReturns(t, ok)
    \/ \E t \in tasks, ok \in BOOLEAN : SaleUpdateReturns(t, ok)
    \/ \E t \in tasks, ok \in BOOLEAN : FetchInventoryReturns(t, ok)
    \/ \E t \in tasks, ok \in BOOLEAN : FetchSalesReturns(t, ok)

SpecTerminal == InitTerminal /\ [][NextTerminal]_vars

\* ------------------------------------------------- the stock dialog only
\* The runs in which the user only works with the stock dialog; its box may
\* hold any of DialogTexts when the form is submitted.
DialogTexts ==
    AdjustTexts \cup { <<"-", "0", ".", "5">>, <<"1", ".", "5">>, <<"a">> }

NextStockDialog ==
    \/ \E t \in tasks, ok \in BOOLEAN : FetchInventoryReturns(t, ok)
    \/ \E t \in tasks, ok \in BOOLEAN : FetchSalesReturns(t, ok)
    \/ \E t \in tasks, ok \in BOOLEAN : UpdateItemReturns(t, ok)
    \/ \E view \in Views : SetActiveView(view)
    \/ \E item \in Range(inventory) : OpenAdjustModal(item)
    \/ CloseAdjustModal
    \/ \E text \in DialogTexts : SetAdjustQty(text)
    \/ now < MaxOps /\ HandleStockAdjustment

SpecStockDialog == Init /\ [][NextStockDialog]_vars

\* ------------------------- handleUpdateItem and handleDeleteItem called alone
\* onUpdate and onDelete are props: any id and any partial item can be
\* passed.  The ids are those of the stocked items (1, 2) and one the
\* inventory does not hold (9); one sale has been recorded before.
CallIds == {1, 2, 9}

CallUpdates ==
    Forms \cup { [quantity |-> 0], [costPrice |-> 2, salesPrice |-> 4] }

RecordedSales == << NewSale(<<SaleLine(1, <<"a">>, 1, 2, 1)>>, 0) >>

InitCatalogue ==
    /\ activeView = "inventory"
    /\ loading = FALSE
    /\ inventory = SeedInventory
    /\ sales = RecordedSales
    /\ remoteInventory = SeedInventory
    /\ remoteSales = RecordedSales
    /\ tasks = {}
    /\ now = 0
    /\ cart = <<>>
    /\ searchTerm = <<>>
    /\ selectedProduct = Null
    /\ qtyInput = 1
    /\ lineHeldBy = <<>>
    /\ isModalOpen = FALSE
    /\ editingId = NoId
    /\ adjustItem = Null
    /\ adjustQty = <<>>
    /\ analysis = Null
    /\ insightsLoading = FALSE
    /\ insightsRequest = NoId
    /\ ev = Event("mount", "", "")
    /\ expenses = <<>>
    /\ timeRange = "30d"
    /\ timezone = 0
    /\ listSearchTerm = <<>>
    /\ listStartDate = Null
    /\ listEndDate = Null
    /\ selectedCategory = "All"

UpdateItemCall(id, updates) ==
    /\ managerShown
    /\ HandleUpdateItem(id, updates)
    /\ UNCHANGED <<terminalVars, managerVars, insightsVars>>

DeleteItemCall(id, confirmed) ==
    /\ managerShown
    /\ HandleDeleteItem(id, confirmed)
    /\ UNCHANGED <<terminalVars, managerVars, insightsVars>>

NextCatalogue ==
    \/ now < MaxOps /\ \E id \in CallIds, updates \in CallUpdates :
           UpdateItemCall(id, updates)
    \/ now < MaxOps /\ \E id \in CallIds, confirmed \in BOOLEAN :
           DeleteItemCall(id, confirmed)
    \/ \E t \in tasks, ok \in BOOLEAN : UpdateItemReturns(t, ok)
    \/ \E t \in tasks, ok \in BOOLEAN : DeleteItemReturns(t, ok)
    \/ \E t \in tasks, ok \in BOOLEAN : FetchInventoryReturns(t, ok)
    \/ \E t \in tasks, ok \in BOOLEAN : FetchSalesReturns(t, ok)

SpecCatalogue == InitCatalogue /\ [][NextCatalogue]_vars

\* ------------------------------------------- every select gets its answer
\* The stock dialog's runs in which no select stays unanswered for ever: the
\* database client settles every promise, with data or with an error.
FetchReturns ==
    \E t \in tasks, ok \in BOOLEAN :
        FetchInventoryReturns(t, ok) \/ FetchSalesReturns(t, ok)

SpecFetchAnswered == SpecStockDialog /\ WF_vars(FetchReturns)

\* ---------------------------------------------------------------- AIInsights
\* Rendered by App for the view "insights" with the local inventory and sales.
\* generateBusinessInsights is taken as the one request it is described as:
\* it carries the two arrays it was called with and answers with a text.
insightsShown == ~loading /\ activeView = "insights"

InsightTexts == { <<"r">> }

\* handleAnalyze up to its await; the button is disabled while loading.
HandleAnalyze ==
    LET stamp == now + 1
    IN /\ insightsShown
       /\ ~insightsLoading
       /\ now' = stamp
       /\ insightsLoading' = TRUE
       /\ insightsRequest' = stamp
       /\ tasks' = tasks \cup
              {[fn |-> "handleAnalyze", id |-> stamp,
                inventory |-> inventory, sales |-> sales]}
       /\ Step(EventOf("handleAnalyze", "", "", stamp))
       /\ UNCHANGED <<appVars, remoteVars, terminalVars, managerVars, analysis>>

\* The request returns: setAnalysis(result); setLoading(false), which show
\* only in the instance that issued it.
AnalyzeReturns(t, result) ==
    /\ t \in tasks /\ t.fn = "handleAnalyze"
    /\ tasks' = tasks \ {t}
    /\ IF insightsRequest = t.id
       THEN /\ analysis' = result
            /\ insightsLoading' = FALSE
            /\ insightsRequest' = NoId
       ELSE UNCHANGED insightsVars
    /\ Step(EventOf("handleAnalyze.result", "ok", "", t.id))
    /\ UNCHANGED <<appVars, remoteVars, now, terminalVars, managerVars>>

\* The runs in which the user moves between the dashboard, the inventory
\* view and the insights view, adjusts stock and asks for reports.
InsightViews == {"dashboard", "inventory", "insights"}

NextInsights ==
    \/ \E t \in tasks, ok \in BOOLEAN : FetchInventoryReturns(t, ok)
    \/ \E t \in tasks, ok \in BOOLEAN : FetchSalesReturns(t, ok)
    \/ \E t \in tasks, ok \in BOOLEAN : UpdateItemReturns(t, ok)
    \/ \E t \in tasks, result \in InsightTexts : AnalyzeReturns(t, result)
    \/ \E view \in InsightViews : SetActiveView(view)
    \/ \E item \in Range(inventory) : OpenAdjustModal(item)
    \/ \E text \in AdjustTexts : SetAdjustQty(text)
    \/ now < MaxAnalyses /\ HandleStockAdjustment
    \/ now < MaxAnalyses /\ HandleAnalyze

SpecInsights == Init /\ [][NextInsights]_vars

\* ---------------------------------------------------------- FinancialReport
\* The component is a function of its props (sales, expenses, inventory), of
\* its one piece of state (timeRange) and of the clock.  An ExpenseRecord is
\* held by the fields the report reads: id, amount, date ("YYYY-MM-DD").
\* Rows of the sales and expenses props.
MaxReportRows == 2
\* A year back from now, in days (366 when a 29 February lies in between).
DaysInYear == 365
\* The clock while the report is shown: noon UTC of day ReportToday.
ReportToday == 400
ReportNow == ReportToday * HoursPerDay + 12

TimeRanges == {"7d", "30d", "90d", "1y", "all"}
Timezones == {-2, 0, 2}

ReportSale(id, totalAmount, totalProfit, date, time) ==
    [id |-> id, items |-> <<>>, totalAmount |-> totalAmount,
     totalProfit |-> totalProfit, timestamp |-> [date |-> date, time |-> time]]

ReportSales ==
    { ReportSale(1, 5, 2, ReportToday, 10),
      ReportSale(2, 3, 1, ReportToday, 23),
      ReportSale(3, 4, -1, ReportToday - 7, 0),
      ReportSale(4, 2, 1, ReportToday - 8, 23) }

ReportExpenses ==
    { [id |-> 1, amount |-> 2, date |-> [date |-> ReportToday]],
      [id |-> 2, amount |-> 1, date |-> [date |-> ReportToday - 7]],
      [id |-> 3, amount |-> 3, date |-> [date |-> ReportToday - 40]] }

\* getDate/setDate/setHours work on local time.
LocalDate(instant, tz) == (instant + tz) \div HoursPerDay
LocalMidnight(date, tz) == date * HoursPerDay - tz

GetStartDate(range, at, tz) ==
    IF range = "all" THEN 0
    ELSE LET days == CASE range = "7d" -> 7
                       [] range = "30d" -> 30
                       [] range = "90d" -> 90
                       [] range = "1y" -> DaysInYear
         IN  LocalMidnight(LocalDate(at, tz) - days, tz)

FilteredSales ==
    LET startDate == GetStartDate(timeRange, now, timezone)
    IN  SelectSeq(sales, LAMBDA s : GetTime(s.timestamp) >= startDate)

FilteredExpenses ==
    LET startDate == GetStartDate(timeRange, now, timezone)
    IN  SelectSeq(expenses, LAMBDA e : GetTime(e.date) >= startDate)

\* dateStr.split('T')[0]: the date part, the whole of a date-only string.
GetDateKey(dateStr) == dateStr.date

EmptyBucket(key) ==
    [date |-> key, revenue |-> 0, expense |-> 0, grossProfit |-> 0,
     netIncome |-> 0, discount |-> 0]

\* if (!dataMap.has(key)) dataMap.set(key, {...}): a Map keeps insertion order.
WithBucket(dataMap, key) ==
    IF FindIndex(dataMap, "date", key) = 0
    THEN Append(dataMap, EmptyBucket(key)) ELSE dataMap

\* sale.items.reduce((sum, i) => sum + (i.discount || 0), 0)
SaleDiscount(sale) ==
    ReduceSum([i \in DOMAIN sale.items |->
                  IF "discount" \in DOMAIN sale.items[i]
                  THEN sale.items[i].discount ELSE 0], 0)

AddSaleReplacing(dataMap, sale) ==
    LET key == GetDateKey(sale.timestamp)
        map == WithBucket(dataMap, key)
        k == FindIndex(map, "date", key)
    IN  [map EXCEPT ![k] = [@ EXCEPT !.revenue = sale.totalAmount,
                                     !.grossProfit = sale.totalProfit,
                                     !.discount = SaleDiscount(sale),
                                     !.netIncome = sale.totalProfit]]

AddSale(dataMap, sale) ==
    LET key == GetDateKey(sale.timestamp)
        map == WithBucket(dataMap, key)
        k == FindIndex(map, "date", key)
    IN  [map EXCEPT ![k] = [@ EXCEPT !.revenue = @ + sale.totalAmount,
                                     !.grossProfit = @ + sale.totalProfit,
                                     !.discount = @ + SaleDiscount(sale),
                                     !.netIncome = @ + sale.totalProfit]]

AddExpense(dataMap, exp) ==
    LET key == GetDateKey(exp.date)
        map == WithBucket(dataMap, key)
        k == FindIndex(map, "date", key)
    IN  [map EXCEPT ![k] = [@ EXCEPT !.expense = @ + exp.amount,
                                     !.netIncome = @ - exp.amount]]

RECURSIVE ProcessSales(_, _)
ProcessSales(dataMap, rows) ==
    IF rows = <<>> THEN dataMap
    ELSE ProcessSales(AddSale(dataMap, Head(rows)), Tail(rows))

RECURSIVE ProcessExpenses(_, _)
ProcessExpenses(dataMap, rows) ==
    IF rows = <<>> THEN dataMap
    ELSE ProcessExpenses(AddExpense(dataMap, Head(rows)), Tail(rows))

\* .sort((a, b) => a.date.localeCompare(b.date)): stable, ascending by date.
RECURSIVE InsertByDate(_, _)
InsertByDate(sorted, bucket) ==
    IF sorted = <<>> THEN <<bucket>>
    ELSE IF bucket.date < Head(sorted).date THEN <<bucket>> \o sorted
    ELSE <<Head(sorted)>> \o InsertByDate(Tail(sorted), bucket)

RECURSIVE SortByDate(_)
SortByDate(buckets) ==
    IF buckets = <<>> THEN <<>>
    ELSE InsertByDate(SortByDate(SubSeq(buckets, 1, Len(buckets) - 1)),
                      buckets[Len(buckets)])

ChartData ==
    SortByDate(ProcessExpenses(ProcessSales(<<>>, FilteredSales),
                               FilteredExpenses))

\* a / b of two numbers, kept as the pair: NaN for 0 / 0, an infinity for
\* another division by 0.
Quotient(a, b) == [num |-> a, den |-> b]
Times(q, n) == [q EXCEPT !.num = @ * n]
IsDefined(q) == q.den # 0

\* totalRevenue > 0 ? (amount / totalRevenue) * 100 : 0
PercentOfRevenue(amount, totalRevenue) ==
    IF totalRevenue > 0 THEN Times(Quotient(amount, totalRevenue), 100)
    ELSE Quotient(0, 1)

\* The summary metrics.
Metrics ==
    LET fSales == FilteredSales
        fExpenses == FilteredExpenses
        totalRevenue ==
            ReduceSum([i \in DOMAIN fSales |-> fSales[i].totalAmount], 0)
        totalDiscount ==
            ReduceSum([i \in DOMAIN fSales |-> SaleDiscount(fSales[i])], 0)
        totalGrossProfit ==
            ReduceSum([i \in DOMAIN fSales |-> fSales[i].totalProfit], 0)
        totalExpenses ==
            ReduceSum([i \in DOMAIN fExpenses |-> fExpenses[i].amount], 0)
    IN  [totalRevenue |-> totalRevenue, totalDiscount |-> totalDiscount,
         totalGrossProfit |-> totalGrossProfit,
         totalCOGS |-> totalRevenue - totalGrossProfit,
         totalExpenses |-> totalExpenses,
         netIncome |-> totalGrossProfit - totalExpenses,
         grossMargin |-> PercentOfRevenue(totalGrossProfit, totalRevenue),
         netMargin |->
             PercentOfRevenue(totalGrossProfit - totalExpenses, totalRevenue),
         expenseRatio |-> PercentOfRevenue(totalExpenses, totalRevenue),
         inventoryValue |->
             ReduceSum([i \in DOMAIN inventory |->
                           inventory[i].costPrice * inventory[i].quantity], 0)]

\* The "Discounts Given" card:
\* (metrics.totalDiscount / (metrics.totalRevenue + metrics.totalDiscount)) * 100
DiscountImpact ==
    Times(Quotient(Metrics.totalDiscount,
                   Metrics.totalRevenue + Metrics.totalDiscount), 100)

\* The report is shown with any props, window and timezone.
InitReport ==
    /\ activeView = "dashboard"
    /\ loading = FALSE
    /\ inventory = SeedInventory
    /\ sales \in SeqsUpTo(ReportSales, MaxReportRows)
    /\ remoteInventory = SeedInventory
    /\ remoteSales = <<>>
    /\ tasks = {}
    /\ now = ReportNow
    /\ cart = <<>>
    /\ searchTerm = <<>>
    /\ selectedProduct = Null
    /\ qtyInput = 1
    /\ lineHeldBy = <<>>
    /\ isModalOpen = FALSE
    /\ editingId = NoId
    /\ adjustItem = Null
    /\ adjustQty = <<>>
    /\ analysis = Null
    /\ insightsLoading = FALSE
    /\ insightsRequest = NoId
    /\ ev = Event("mount", "", "")
    /\ expenses \in SeqsUpTo(ReportExpenses, MaxReportRows)
    /\ timeRange = "30d"
    /\ timezone \in Timezones
    /\ listSearchTerm = <<>>
    /\ listStartDate = Null
    /\ listEndDate = Null
    /\ selectedCategory = "All"

SetTimeRange(range) ==
    /\ timeRange' = range
    /\ ev' = Event("setTimeRange", "", "")
    /\ UNCHANGED <<appVars, remoteVars, tasks, now, terminalVars, managerVars, insightsVars,
                   expenses, timezone, listVars>>

NextReport == \E range \in TimeRanges : SetTimeRange(range)

SpecReport == InitReport /\ [][NextReport]_vars

\* ------------------------------------------------------------ SalesHistory
\* The history view as a function of the sales prop, of its three filters
\* and of the browser's timezone.
HistoryDay == 100

\* Sales recorded late on the day before HistoryDay, early and late on it,
\* and at the first hour of the day after (UTC).
HistorySales ==
    { NewSale(<<SaleLine(1, <<"a">>, 1, 2, 1)>>, HistoryDay * HoursPerDay + 1),
      NewSale(<<SaleLine(2, <<"b">>, 1, 3, 2)>>, HistoryDay * HoursPerDay - 1),
      NewSale(<<SaleLine(1, <<"a">>, 1, 2, 1), SaleLine(2, <<"b">>, 1, 3, 2)>>,
              (HistoryDay + 1) * HoursPerDay),
      NewSale(<<SaleLine(3, <<"A", "b">>, 2, 1, 2)>>,
              HistoryDay * HoursPerDay + 23) }

\* What the date inputs can hold: "" or a date.
ListDates == {Null, [date |-> HistoryDay], [date |-> HistoryDay + 1]}

ListSearchTerms == { <<>>, <<"a">>, <<"B">> }

\* new Date(startDate) is midnight UTC of the date; setHours(0, 0, 0, 0)
\* moves it to the midnight that starts its local day.
HistoryStart(startDate, tz) ==
    LocalMidnight(LocalDate(GetTime(startDate), tz), tz)

\* setHours(23, 59, 59, 999): the last millisecond of that local day; among
\* whole hours, the day's hour 23.
HistoryEnd(endDate, tz) ==
    LocalMidnight(LocalDate(GetTime(endDate), tz), tz) + HoursPerDay - 1

MatchesSearch(sale) ==
    \/ listSearchTerm = <<>>
    \/ \E i \in DOMAIN sale.items :
          Includes(ToLowerCase(sale.items[i].name), ToLowerCase(listSearchTerm))

MatchesDate(sale) ==
    /\ listStartDate # Null =>
          GetTime(sale.timestamp) >= HistoryStart(listStartDate, timezone)
    /\ listEndDate # Null =>
          GetTime(sale.timestamp) <= HistoryEnd(listEndDate, timezone)

\* Array.prototype.sort with (a, b) => time(b) - time(a): stable, newest first.
RECURSIVE InsertNewestFirst(_, _)
InsertNewestFirst(s, sorted) ==
    IF sorted = <<>> THEN <<s>>
    ELSE IF GetTime(s.timestamp) >= GetTime(Head(sorted).timestamp)
         THEN <<s>> \o sorted
         ELSE <<Head(sorted)>> \o InsertNewestFirst(s, Tail(sorted))

RECURSIVE SortNewestFirst(_)
SortNewestFirst(rows) ==
    IF rows = <<>> THEN <<>>
    ELSE InsertNewestFirst(Head(rows), SortNewestFirst(Tail(rows)))

HistoryFilteredSales ==
    SortNewestFirst(
        SelectSeq(sales, LAMBDA sale : MatchesSearch(sale) /\ MatchesDate(sale)))

HistoryTotalRevenue ==
    ReduceSum([i \in DOMAIN HistoryFilteredSales |->
                  HistoryFilteredSales[i].totalAmount], 0)

HistoryTotalProfit ==
    ReduceSum([i \in DOMAIN HistoryFilteredSales |->
                  HistoryFilteredSales[i].totalProfit], 0)

InitHistory ==
    /\ activeView = "history"
    /\ loading = FALSE
    /\ inventory = SeedInventory
    /\ sales \in {s \in SeqsUpTo(HistorySales, MaxReportRows) :
                     \A i, j \in DOMAIN s : s[i] = s[j] => i = j}
    /\ remoteInventory = SeedInventory
    /\ remoteSales = sales
    /\ tasks = {}
    /\ now = (HistoryDay + 2) * HoursPerDay
    /\ cart = <<>>
    /\ searchTerm = <<>>
    /\ selectedProduct = Null
    /\ qtyInput = 1
    /\ lineHeldBy = <<>>
    /\ isModalOpen = FALSE
    /\ editingId = NoId
    /\ adjustItem = Null
    /\ adjustQty = <<>>
    /\ analysis = Null
    /\ insightsLoading = FALSE
    /\ insightsRequest = NoId
    /\ ev = Event("mount", "", "")
    /\ expenses = <<>>
    /\ timeRange = "30d"
    /\ timezone \in Timezones
    /\ listSearchTerm = <<>>
    /\ listStartDate = Null
    /\ listEndDate = Null
    /\ selectedCategory = "All"

ListUnchanged ==
    UNCHANGED <<appVars, remoteVars, tasks, now, terminalVars, managerVars,
                insightsVars, expenses, timeRange, timezone>>

\* onChange of the search box and of the two date inputs
SetListSearchTerm(term) ==
    /\ listSearchTerm' = term
    /\ ev' = Event("setSearchTerm", "", "")
    /\ ListUnchanged
    /\ UNCHANGED <<listStartDate, listEndDate, selectedCategory>>

SetStartDate(date) ==
    /\ listStartDate' = date
    /\ ev' = Event("setStartDate", "", "")
    /\ ListUnchanged
    /\ UNCHANGED <<listSearchTerm, listEndDate, selectedCategory>>

SetEndDate(date) ==
    /\ listEndDate' = date
    /\ ev' = Event("setEndDate", "", "")
    /\ ListUnchanged
    /\ UNCHANGED <<listSearchTerm, listStartDate, selectedCategory>>

NextHistory ==
    \/ \E term \in ListSearchTerms : SetListSearchTerm(term)
    \/ \E date \in ListDates : SetStartDate(date)
    \/ \E date \in ListDates : SetEndDate(date)

SpecHistory == InitHistory /\ [][NextHistory]_vars

\* ---------------------------------------------------------- ExpensesManager
\* The expenses view as a function of the expenses prop and of its four
\* filters.  An ExpenseRecord is held by the fields the view computes with:
\* id, description, amount, category, date ("YYYY-MM-DD").
MaxExpenseRows == 3

Expense(id, description, amount, category, date) ==
    [id |-> id, description |-> description, amount |-> amount,
     category |-> category, date |-> [date |-> date]]

ManagerExpenses ==
    { Expense(1, <<"a">>, 2, "Rent", HistoryDay),
      Expense(2, <<"b">>, 3, "Rent", HistoryDay + 1),
      Expense(3, <<"a", "b">>, 1, "Utilities", HistoryDay),
      Expense(4, <<"c">>, -2, "Rent", HistoryDay - 1) }

\* The options of the category select that the expenses above use.
CategoryOptions == {"All", "Rent", "Utilities"}

\* The category names as character sequences, for the search box.
CategoryText(category) ==
    CASE category = "Rent" -> <<"R", "e", "n", "t">>
      [] category = "Utilities" -> <<"U", "t", "i", "l", "i", "t", "i", "e", "s">>
      [] OTHER -> <<>>

ExpenseMatches(exp) ==
    /\ \/ Includes(ToLowerCase(exp.description), ToLowerCase(listSearchTerm))
       \/ Includes(ToLowerCase(CategoryText(exp.category)),
                   ToLowerCase(listSearchTerm))
    /\ selectedCategory = "All" \/ exp.category = selectedCategory
    /\ listStartDate # Null => GetTime(exp.date) >= GetTime(listStartDate)
    /\ listEndDate # Null => GetTime(exp.date) <= GetTime(listEndDate)

\* .sort((a, b) => time(b.date) - time(a.date)): stable, newest first.
RECURSIVE InsertByDateDesc(_, _)
InsertByDateDesc(exp, sorted) ==
    IF sorted = <<>> THEN <<exp>>
    ELSE IF GetTime(exp.date) >= GetTime(Head(sorted).date)
         THEN <<exp>> \o sorted
         ELSE <<Head(sorted)>> \o InsertByDateDesc(exp, Tail(sorted))

RECURSIVE SortByDateDesc(_)
SortByDateDesc(rows) ==
    IF rows = <<>> THEN <<>>
    ELSE InsertByDateDesc(Head(rows), SortByDateDesc(Tail(rows)))

ManagerFilteredExpenses == SortByDateDesc(SelectSeq(expenses, ExpenseMatches))

\* Mutant of AddToCategory: the amount replaces the category's total.
AddToCategoryReplacing(data, exp) ==
    LET at == FindIndex(data, "name", exp.category)
    IN IF at > 0 THEN [data EXCEPT ![at].value = exp.amount]
       ELSE Append(data, [name |-> exp.category, value |-> exp.amount])

\* data[exp.category] = (data[exp.category] || 0) + exp.amount, the keys of
\* data in the order they were first written.
AddToCategory(data, exp) ==
    LET at == FindIndex(data, "name", exp.category)
    IN IF at > 0 THEN [data EXCEPT ![at].value = @ + exp.amount]
       ELSE Append(data, [name |-> exp.category, value |-> 0 + exp.amount])

RECURSIVE CategoryDataOf(_, _)
CategoryDataOf(data, rows) ==
    IF rows = <<>> THEN data
    ELSE CategoryDataOf(AddToCategory(data, Head(rows)), Tail(rows))

CategoryData == CategoryDataOf(<<>>, ManagerFilteredExpenses)

TotalExpenses ==
    ReduceSum([i \in DOMAIN ManagerFilteredExpenses |->
                  ManagerFilteredExpenses[i].amount], 0)

\* filteredExpenses.length > 0 ? totalExpenses / filteredExpenses.length : 0,
\* the number 0 held as 0/1.
AvgExpense ==
    IF Len(ManagerFilteredExpenses) > 0
    THEN Quotient(TotalExpenses, Len(ManagerFilteredExpenses))
    ELSE Quotient(0, 1)

InitExpenses ==
    /\ activeView = "dashboard"
    /\ loading = FALSE
    /\ inventory = SeedInventory
    /\ sales = <<>>
    /\ remoteInventory = SeedInventory
    /\ remoteSales = <<>>
    /\ tasks = {}
    /\ now = (HistoryDay + 2) * HoursPerDay
    /\ cart = <<>>
    /\ searchTerm = <<>>
    /\ selectedProduct = Null
    /\ qtyInput = 1
    /\ lineHeldBy = <<>>
    /\ isModalOpen = FALSE
    /\ editingId = NoId
    /\ adjustItem = Null
    /\ adjustQty = <<>>
    /\ analysis = Null
    /\ insightsLoading = FALSE
    /\ insightsRequest = NoId
    /\ ev = Event("mount", "", "")
    /\ expenses \in {e \in SeqsUpTo(ManagerExpenses, MaxExpenseRows) :
                        \A i, j \in DOMAIN e : e[i] = e[j] => i = j}
    /\ timeRange = "30d"
    /\ timezone \in Timezones
    /\ listSearchTerm = <<>>
    /\ listStartDate = Null
    /\ listEndDate = Null
    /\ selectedCategory = "All"

\* onChange of the category select
SetSelectedCategory(category) ==
    /\ selectedCategory' = category
    /\ ev' = Event("setSelectedCategory", "", "")
    /\ ListUnchanged
    /\ UNCHANGED <<listSearchTerm, listStartDate, listEndDate>>

NextExpenses ==
    \/ \E term \in ListSearchTerms : SetListSearchTerm(term)
    \/ \E category \in CategoryOptions : SetSelectedCategory(category)
    \/ \E date \in ListDates : SetStartDate(date)
    \/ \E date \in ListDates : SetEndDate(date)

SpecExpenses == InitExpenses /\ [][NextExpenses]_vars

\* ===================================================================== claims
\* Sum over the lines of quantity times the named field, last line outwards.
RECURSIVE SigmaQtyTimes(_, _)
SigmaQtyTimes(items, field) ==
    IF items = <<>> THEN 0
    ELSE LET n == Len(items)
         IN SigmaQtyTimes(SubSeq(items, 1, n - 1), field)
                + items[n].quantity * items[n][field]

\* C1: every sale record created by handleCompleteSale, for any cart, has
\* totalAmount = sum of quantity * priceAtSale over its lines and totalProfit =
\* totalAmount - sum of quantity * costAtSale; both are 0 for an empty cart.
C1_SaleTotals ==
    \A s \in Range(sales) \cup Range(remoteSales) :
        /\ s.totalAmount = SigmaQtyTimes(s.items, "priceAtSale")
        /\ s.totalProfit = s.totalAmount - SigmaQtyTimes(s.items, "costAtSale")
        /\ s.items = <<>> => s.totalAmount = 0 /\ s.totalProfit = 0

\* A two-line sale with different quantities, prices and costs was recorded.
C1_Witness ==
    \E s \in Range(sales) :
        /\ Len(s.items) = 2
        /\ s.items[1].quantity # s.items[2].quantity
        /\ s.items[1].priceAtSale # s.items[2].priceAtSale
        /\ s.items[1].costAtSale # s.items[2].costAtSale
        /\ s.totalProfit # 0

\* C2 (as claimed): no quantity of the local inventory is ever negative.
C2_NoNegativeStock ==
    \A i \in DOMAIN inventory : inventory[i].quantity >= 0

WriteSteps ==
    {"handleAddItem.insert", "handleUpdateItem.update", "handleDeleteItem.delete",
     "handleCompleteSale.insert", "handleCompleteSale.update"}

\* C3 (as claimed): a step in which a remote write fails shows an alert and
\* starts a refetch (fetchData) on behalf of the failed call.
C3_FailedWriteAlertsAndRefetches ==
    (ev.op \in WriteSteps /\ ev.res = "error") =>
        /\ ev.alert # ""
        /\ FetchTask(ev.task) \in tasks

\* The last step ended a fetchData that a failed write had started.
RefetchJustFinished ==
    /\ ev.task # 0
    /\ \/ ev.op = "fetchData.sales"
       \/ ev.op = "fetchData.inventory" /\ ev.res = "error"

\* C4 (as claimed): when the refetch started by a failed write has finished,
\* the local inventory and sales hold exactly the rows of the remote store.
C4_RefetchRestoresRemote ==
    RefetchJustFinished =>
        /\ Range(inventory) = Range(remoteInventory)
        /\ Range(sales) = Range(remoteSales)

SaleTasks == {t \in tasks : t.fn = "handleCompleteSale"}

ItemHeld(t, m) == FindItem(t.inventory, t.items[m].itemId) # Null

\* C5, in every state: an inventory update of a sale is in flight only once
\* the sale's insert has succeeded (the record is in the remote table), it is
\* for a cart line whose item the handler holds, and a sale has at most one
\* request in flight.
C5_UpdateAfterInsert ==
    \A t \in SaleTasks :
        /\ t.line > 0 =>
              /\ t.newSale \in Range(remoteSales)
              /\ ItemHeld(t, t.line)
        /\ \A u \in SaleTasks : u.id = t.id => u = t

\* C5, in every step: when a sale's pending request returns, the next update
\* issued is for the first later line whose item is held, and the handler
\* ends only when no later line has one (or when the insert failed).
C5_OneUpdatePerHeldLine ==
    \A t \in SaleTasks :
        t \notin tasks' =>
            LET next == {u \in tasks' : u.fn = "handleCompleteSale" /\ u.id = t.id}
                skipped(to) == \A m \in (t.line + 1)..(to - 1) : ~ItemHeld(t, m)
            IN IF next = {}
               THEN \/ t.line = 0 /\ ev'.res = "error" /\ remoteVars' = remoteVars
                    \/ skipped(Len(t.items) + 1)
               ELSE \A u \in next :
                        /\ u.line > t.line
                        /\ ItemHeld(t, u.line)
                        /\ skipped(u.line)
                        /\ t.line = 0 => t.newSale \in Range(remoteSales')

\* C5: the sale insert completes successfully before any inventory update of
\* that sale is issued; after a failed insert none is issued; the updates are
\* issued one at a time, one per cart line whose item exists.
C5_InsertThenUpdatesInTurn ==
    []C5_UpdateAfterInsert /\ [][C5_OneUpdatePerHeldLine]_vars

\* The update for a sale's second line is in flight, after the insert and
\* the update for its first line have returned.
C5_Witness ==
    \E t \in SaleTasks :
        /\ t.line = 2
        /\ ItemHeld(t, 1)
        /\ t.newSale \in Range(remoteSales)

\* The stock of a product in the local inventory, where it has one.
LocalStock(itemId) == FindItem(inventory, itemId).quantity

\* C7 (as claimed): addToCart for a product with a line in the cart leaves the
\* cart unchanged whenever the line's quantity plus the entered quantity
\* exceeds the product's quantity in the local inventory at that moment.
C7_MergeOverLocalStockRejected ==
    [][(/\ ev'.op = "addToCart"
        /\ selectedProduct # Null
        /\ FindItem(inventory, selectedProduct.id) # Null
        /\ \E i \in DOMAIN cart :
               /\ cart[i].itemId = selectedProduct.id
               /\ cart[i].quantity + qtyInput > LocalStock(selectedProduct.id))
       => cart' = cart /\ ev'.res = "rejected"]_vars

\* C6, in every state: the cart holds at most one line per itemId.
C6_OneLinePerItem ==
    \A i, j \in DOMAIN cart : cart[i].itemId = cart[j].itemId => i = j

\* C6, in every step: an accepted addToCart for a product that has a line adds
\* the entered quantity to that line and leaves the other lines as they are.
C6_AcceptedAddMerges ==
    (/\ ev'.op = "addToCart" /\ ev'.res = "accepted"
     /\ selectedProduct # Null
     /\ \E i \in DOMAIN cart : cart[i].itemId = selectedProduct.id)
    => /\ Len(cart') = Len(cart)
       /\ \A i \in DOMAIN cart :
              cart'[i] = IF cart[i].itemId = selectedProduct.id
                         THEN [cart[i] EXCEPT !.quantity = @ + qtyInput]
                         ELSE cart[i]

\* C6: addToCart merges into the existing line, so the cart never holds two
\* lines for one itemId.
C6_CartMerges ==
    []C6_OneLinePerItem /\ [][C6_AcceptedAddMerges]_vars

\* A merge has just happened: a line holds more than one entry of the
\* quantity box can give, next to a line of another product.
C6_Witness ==
    /\ ev.op = "addToCart" /\ ev.res = "accepted"
    /\ Len(cart) = 2
    /\ \E i \in DOMAIN cart : cart[i].quantity > MaxQtyInput

\* C8: every sale and every expense of the selected range falls in exactly
\* one calendar-day bucket of the chart data, each bucket holds the sums of
\* the records of its day, and the buckets' revenue, expense and gross
\* profit add up to totalRevenue, totalExpenses and totalGrossProfit.
BucketsOf(key) == {b \in DOMAIN ChartData : ChartData[b].date = key}

DaySum(rows, dateField, key, amountField) ==
    LET ofDay == SelectSeq(rows, LAMBDA r : GetDateKey(r[dateField]) = key)
    IN  ReduceSum([i \in DOMAIN ofDay |-> ofDay[i][amountField]], 0)

ChartSum(field) ==
    ReduceSum([b \in DOMAIN ChartData |-> ChartData[b][field]], 0)

C8_BucketsAddUp ==
    /\ \A s \in Range(FilteredSales) :
           Cardinality(BucketsOf(GetDateKey(s.timestamp))) = 1
    /\ \A e \in Range(FilteredExpenses) :
           Cardinality(BucketsOf(GetDateKey(e.date))) = 1
    /\ \A b \in DOMAIN ChartData :
           LET bucket == ChartData[b]
           IN  /\ bucket.revenue =
                      DaySum(FilteredSales, "timestamp", bucket.date, "totalAmount")
               /\ bucket.grossProfit =
                      DaySum(FilteredSales, "timestamp", bucket.date, "totalProfit")
               /\ bucket.expense =
                      DaySum(FilteredExpenses, "date", bucket.date, "amount")
    /\ ChartSum("revenue") = Metrics.totalRevenue
    /\ ChartSum("expense") = Metrics.totalExpenses
    /\ ChartSum("grossProfit") = Metrics.totalGrossProfit

\* Two sales of one day share a bucket, another day has its own, and an
\* expense is in range.
C8_Witness ==
    /\ \E i, j \in DOMAIN FilteredSales :
           /\ i # j
           /\ GetDateKey(FilteredSales[i].timestamp) =
                  GetDateKey(FilteredSales[j].timestamp)
    /\ Len(ChartData) >= 2
    /\ FilteredExpenses # <<>>

\* C9: add item, update item, delete item and sale completion change the
\* local state before their remote write is issued, and the change is shown
\* locally for as long as the write is pending (until another handler call
\* changes the local lists).
HandlerOps ==
    {"handleAddItem", "handleUpdateItem", "handleDeleteItem", "handleCompleteSale"}

WriteTasks == {t \in tasks : t.fn \in HandlerOps}

\* The local lists inv and sls show the optimistic change of the call t.
ShowsChange(t, inv, sls) ==
    CASE t.fn = "handleAddItem" -> t.newItem \in Range(inv)
      [] t.fn = "handleUpdateItem" ->
             \A item \in Range(inv) :
                 item.id = t.itemId => Spread(item, t.finalUpdates) = item
      [] t.fn = "handleDeleteItem" -> \A item \in Range(inv) : item.id # t.itemId
      [] t.fn = "handleCompleteSale" -> t.newSale \in Range(sls)

\* The remote store has not seen the write of the call t.
NotYetWritten(t) ==
    CASE t.fn = "handleAddItem" -> t.newItem \notin Range(remoteInventory)
      [] t.fn = "handleUpdateItem" ->
             \A row \in Range(remoteInventory) :
                 row.lastUpdated # t.finalUpdates.lastUpdated
      [] t.fn = "handleDeleteItem" -> TRUE
      [] t.fn = "handleCompleteSale" ->
             t.line = 0 /\ t.newSale \notin Range(remoteSales)

C9_AppliedBeforeIssued ==
    (ev.op \in HandlerOps /\ ev.res = "") =>
        \E t \in WriteTasks :
            t.id = ev.task /\ ShowsChange(t, inventory, sales) /\ NotYetWritten(t)

C9_StaysShown ==
    \A t \in WriteTasks :
        ( /\ \E u \in tasks' : u.fn = t.fn /\ u.id = t.id
          /\ ShowsChange(t, inventory, sales)
          /\ ev'.op \notin HandlerOps )
        => ShowsChange(t, inventory', sales')

C9_OptimisticWhilePending ==
    []C9_AppliedBeforeIssued /\ [][C9_StaysShown]_vars

\* C10: a sale in the local sales list keeps its priceAtSale, costAtSale,
\* totalAmount and totalProfit: handleUpdateItem and handleDeleteItem, and
\* the return of their remote write, leave the sales list as it is, and no
\* step changes a sale that stays in the list.
CatalogueOps ==
    {"handleUpdateItem", "handleDeleteItem",
     "handleUpdateItem.update", "handleDeleteItem.delete"}

C10_SalesUntouched ==
    /\ ev'.op \in CatalogueOps => sales' = sales
    /\ \A s \in Range(sales), s2 \in Range(sales') : s.id = s2.id => s2 = s

C10_SaleDecoupled == [][C10_SalesUntouched]_vars

\* handleUpdateItem has just re-priced an item that a recorded sale holds
\* at its old price.
C10_Witness ==
    /\ ev.op = "handleUpdateItem"
    /\ \E t \in tasks, s \in Range(sales) : \E i \in DOMAIN s.items :
           /\ t.fn = "handleUpdateItem" /\ t.id = ev.task
           /\ s.items[i].itemId = t.itemId
           /\ "salesPrice" \in DOMAIN t.finalUpdates
           /\ t.finalUpdates.salesPrice # s.items[i].priceAtSale
           /\ \E item \in Range(inventory) :
                  item.id = t.itemId /\ item.salesPrice = t.finalUpdates.salesPrice
\* C11: every line of a sale recorded by checkout carries the salesPrice and
\* costPrice that its product has in the local inventory when the sale is
\* completed.
C11_PricesAsInLocalInventory ==
    (ev.op = "handleCompleteSale") =>
        \A i \in DOMAIN Head(sales).items :
            LET line == Head(sales).items[i]
            IN  \E item \in Range(inventory) :
                    /\ item.id = line.itemId
                    /\ item.salesPrice = line.priceAtSale
                    /\ item.costPrice = line.costAtSale
\* C12: every sale record, local or remote, keeps totalAmount = sum of
\* quantity * priceAtSale and totalProfit = totalAmount - sum of quantity *
\* costAtSale over its own items in every state, whatever the terminal does
\* with the cart afterwards.
C12_TotalsOfOwnItems ==
    \A s \in Range(sales) \cup Range(remoteSales) :
        /\ s.totalAmount = SigmaQtyTimes(s.items, "priceAtSale")
        /\ s.totalProfit = s.totalAmount - SigmaQtyTimes(s.items, "costAtSale")

\* A sale is recorded and a later Add to Cart has merged into a cart line.
C12_Witness ==
    /\ sales # <<>>
    /\ ev.op = "addToCart" /\ ev.res = "accepted"
    /\ \E i \in DOMAIN cart : cart[i].quantity > MaxQtyInput
\* C13: a remote write is attempted at most once.  A step in which a write
\* returns ends the call, or moves a sale on to the update of a later cart
\* line; it starts nothing but, on failure, the one refetch; and a write
\* becomes pending only in the step of the user action it belongs to.
C13_WriteStepMovesOn ==
    ev'.op \in WriteSteps =>
        \A t \in WriteTasks : t.id = ev'.task =>
            /\ \A u \in tasks' : (u.fn = t.fn /\ u.id = t.id) =>
                   (t.fn = "handleCompleteSale" /\ u.line > t.line)
            /\ \A u \in tasks' \ tasks :
                   \/ u.fn = t.fn /\ u.id = t.id
                   \/ ev'.res = "error" /\ u = FetchTask(t.id)

C13_WritesStartWithUserAction ==
    \A u \in tasks' :
        (u.fn \in HandlerOps /\ \A t \in tasks : ~(t.fn = u.fn /\ t.id = u.id))
        => (ev'.op = u.fn /\ ev'.task = u.id /\ u.id = now' /\ now' > now)

C13_NoRetry ==
    [][C13_WriteStepMovesOn /\ C13_WritesStartWithUserAction]_vars

\* A write has just failed and the refetch is the only thing it started.
C13_Witness ==
    /\ ev.op \in WriteSteps /\ ev.res = "error"
    /\ FetchTask(ev.task) \in tasks
    /\ \A t \in WriteTasks : t.id # ev.task
\* C14 (as claimed): the report includes a sale exactly when its timestamp,
\* and an expense exactly when its date, is on or after the start of the
\* selected window: the local midnight that begins the day 7, 30 or 90 days
\* or a year before today; every record for "all".
WindowDays(range) ==
    CASE range = "7d" -> 7 [] range = "30d" -> 30 [] range = "90d" -> 90
      [] range = "1y" -> DaysInYear

FirstDay(range) == LocalDate(now, timezone) - WindowDays(range)

C14_WindowInclusion ==
    /\ \A s \in Range(sales) :
           s \in Range(FilteredSales) <=>
               \/ timeRange = "all"
               \/ GetTime(s.timestamp) >= LocalMidnight(FirstDay(timeRange), timezone)
    /\ \A e \in Range(expenses) :
           e \in Range(FilteredExpenses) <=>
               \/ timeRange = "all"
               \/ e.date.date >= FirstDay(timeRange)

\* The windows from the shortest to the longest.
WindowRank(range) ==
    CASE range = "7d" -> 1 [] range = "30d" -> 2 [] range = "90d" -> 3
      [] range = "1y" -> 4 [] range = "all" -> 5

\* Choosing a longer window drops no record.
C14_ShorterWithinLonger ==
    [][WindowRank(timeRange) <= WindowRank(timeRange') =>
          /\ Range(FilteredSales) \subseteq Range(FilteredSales')
          /\ Range(FilteredExpenses) \subseteq Range(FilteredExpenses')]_vars
\* C15 (as claimed): net income is gross profit minus expenses; the three
\* margins are gross profit, net income and expenses over revenue times 100;
\* and every percentage of the report is defined, and 0 when the range has
\* no revenue.
IsPercentOf(q, amount, total) == q.num * total = amount * 100 * q.den

ReportPercentages ==
    {Metrics.grossMargin, Metrics.netMargin, Metrics.expenseRatio, DiscountImpact}

C15_MarginsDefined ==
    /\ Metrics.netIncome = Metrics.totalGrossProfit - Metrics.totalExpenses
    /\ Metrics.totalRevenue # 0 =>
           /\ IsPercentOf(Metrics.grossMargin, Metrics.totalGrossProfit,
                          Metrics.totalRevenue)
           /\ IsPercentOf(Metrics.netMargin, Metrics.netIncome,
                          Metrics.totalRevenue)
           /\ IsPercentOf(Metrics.expenseRatio, Metrics.totalExpenses,
                          Metrics.totalRevenue)
    /\ \A q \in ReportPercentages :
           /\ IsDefined(q)
           /\ Metrics.totalRevenue = 0 => q.num = 0

\* The same without the "Discounts Given" card.
C15_SummaryMargins ==
    /\ Metrics.netIncome = Metrics.totalGrossProfit - Metrics.totalExpenses
    /\ \A q \in {Metrics.grossMargin, Metrics.netMargin, Metrics.expenseRatio} :
           /\ IsDefined(q)
           /\ Metrics.totalRevenue = 0 => q.num = 0
\* C16 (as claimed): a press of Generate Business Report issues one request
\* carrying the inventory and sales of that moment, and at most one insight
\* request is in flight at any time.
InsightRequests == {t \in tasks : t.fn = "handleAnalyze"}

C16_CarriesSnapshot ==
    ev.op = "handleAnalyze" =>
        \E t \in InsightRequests :
            t.id = ev.task /\ t.inventory = inventory /\ t.sales = sales

C16_OneInsightRequest ==
    /\ C16_CarriesSnapshot
    /\ Cardinality(InsightRequests) <= 1
\* C17: the optimistic update of handleCompleteSale lowers the local quantity
\* of every inventory item named by a cart line by the quantity of its
\* line(s), changes nothing else of it but lastUpdated, and leaves every
\* other item as it was; a line naming no inventory item changes nothing.
C17_OnlySoldQuantities ==
    ev'.op = "handleCompleteSale" =>
        LET items == Head(sales').items
        IN  /\ Len(inventory') = Len(inventory)
            /\ \A i \in DOMAIN inventory :
                   LET old == inventory[i]
                       new == inventory'[i]
                   IN  IF \E k \in DOMAIN items : items[k].itemId = old.id
                       THEN /\ new.quantity =
                                   old.quantity - ItemInCartTotal(items, old.id)
                            /\ DOMAIN new = DOMAIN old
                            /\ \A f \in DOMAIN old \ {"quantity", "lastUpdated"} :
                                   new[f] = old[f]
                       ELSE new = old

C17_OptimisticDecrement == [][C17_OnlySoldQuantities]_vars

\* A sale has just been completed with a line for a stocked item and a line
\* for an id the inventory does not hold.
C17_Witness ==
    /\ ev.op = "handleCompleteSale"
    /\ \E k, m \in DOMAIN Head(sales).items :
           /\ FindItem(inventory, Head(sales).items[k].itemId) # Null
           /\ FindItem(inventory, Head(sales).items[m].itemId) = Null
\* C18: for each cart line whose item the local inventory holds, the
\* quantity sent to the remote store by the sale is the quantity the
\* optimistic update of that sale gave the item locally: its local quantity
\* before the sale minus the line's quantity.
OptimisticQuantity(t, k) ==
    FindItem(DecrementStock(t.inventory, t.items, t.id), t.items[k].itemId).quantity

C18_RequestIsOptimistic ==
    \A t \in SaleTasks : t.line > 0 =>
        /\ t.request.quantity = OptimisticQuantity(t, t.line)
        /\ t.request.quantity =
               FindItem(t.inventory, t.items[t.line].itemId).quantity
                   - t.items[t.line].quantity

\* The handler closes over the inventory that its optimistic update starts
\* from, and a successful update stores the request's quantity.
C18_StepsAgree ==
    /\ ev'.op = "handleCompleteSale" =>
           \E t \in tasks' : /\ t.fn = "handleCompleteSale" /\ t.id = ev'.task
                             /\ t.inventory = inventory
                             /\ \A k \in DOMAIN t.items : ItemHeld(t, k) =>
                                    FindItem(inventory', t.items[k].itemId).quantity
                                        = OptimisticQuantity(t, k)
    /\ (ev'.op = "handleCompleteSale.update" /\ ev'.res = "ok") =>
           \A t \in SaleTasks : t.id = ev'.task =>
               \A row \in Range(remoteInventory') :
                   row.id = t.items[t.line].itemId =>
                       row.quantity = t.request.quantity

C18_RemoteGetsOptimisticQuantity ==
    []C18_RequestIsOptimistic /\ [][C18_StepsAgree]_vars

\* Two sales of the same item are in flight and the later one is sending
\* its update.
C18_Witness ==
    \E t, u \in SaleTasks :
        /\ t.id < u.id /\ u.line > 0
        /\ \E k \in DOMAIN t.items : t.items[k].itemId = u.items[u.line].itemId
\* C19: handleAddItem and handleCompleteSale insert into the remote table
\* the very record they added to the local list, and each call issues one
\* insert.
C19_SameRecordOneInsert ==
    /\ ev'.op = "handleAddItem" =>
           /\ Cardinality({t \in tasks' \ tasks : t.fn = "handleAddItem"}) = 1
           /\ \A t \in tasks' \ tasks :
                  /\ t.id = ev'.task
                  /\ inventory' = Append(inventory, t.newItem)
    /\ ev'.op = "handleCompleteSale" =>
           /\ Cardinality({t \in tasks' \ tasks : t.fn = "handleCompleteSale"}) = 1
           /\ \A t \in tasks' \ tasks :
                  /\ t.id = ev'.task /\ t.line = 0
                  /\ sales' = <<t.newSale>> \o sales
    /\ ev'.op = "handleAddItem.insert" =>
           \A t \in tasks : (t.fn = "handleAddItem" /\ t.id = ev'.task) =>
               /\ remoteInventory' = IF ev'.res = "ok"
                                     THEN Append(remoteInventory, t.newItem)
                                     ELSE remoteInventory
               /\ \A u \in tasks' : ~(u.fn = t.fn /\ u.id = t.id)
    /\ ev'.op = "handleCompleteSale.insert" =>
           \A t \in tasks : (t.fn = "handleCompleteSale" /\ t.id = ev'.task) =>
               /\ remoteSales' = IF ev'.res = "ok"
                                 THEN Append(remoteSales, t.newSale)
                                 ELSE remoteSales
               /\ \A u \in tasks' : (u.fn = t.fn /\ u.id = t.id) => u.line > 0
    /\ ev'.op \notin {"handleAddItem.insert", "handleCompleteSale.insert"} =>
           /\ Len(remoteSales') = Len(remoteSales)
           /\ Len(remoteInventory') <= Len(remoteInventory)

C19_InsertsWhatWasAdded == [][C19_SameRecordOneInsert]_vars

\* An added item and a sale have both reached the remote tables.
C19_Witness ==
    /\ remoteSales # <<>>
    /\ \E row \in Range(remoteInventory) : row \notin Range(SeedInventory)
                                             /\ row.id = NewItemId(1)
\* C20: when every call to the remote store has succeeded and none is in
\* flight, each item has the same quantity in the local and in the remote
\* inventory.
QuantityById(rows) == {<<row.id, row.quantity>> : row \in Range(rows)}

C20_QuantitiesConverge ==
    (tasks = {} /\ ~loading) => QuantityById(inventory) = QuantityById(remoteInventory)
\* C21: handleCheckout on an empty cart records no sale and changes
\* nothing; on a non-empty cart it passes the cart to sale completion once
\* and leaves the cart empty, so no sale is recorded from that cart again.
C21_CheckoutStep ==
    /\ ev'.op = "handleCheckout" =>
           /\ cart = <<>>
           /\ UNCHANGED <<activeView, loading, inventory, sales, remoteInventory,
                          remoteSales, tasks, now, terminalVars, managerVars>>
    /\ ev'.op = "handleCompleteSale" =>
           /\ cart # <<>>
           /\ cart' = <<>>
           /\ sales' = <<Head(sales')>> \o sales
           /\ Head(sales').items = cart
           /\ Cardinality(tasks' \ tasks) = 1
           /\ \A t \in tasks' \ tasks :
                  t.fn = "handleCompleteSale" /\ t.items = cart /\ t.id = ev'.task
    /\ ev'.op \notin {"handleCompleteSale", "fetchData.sales"} =>
           Len(sales') = Len(sales)

C21_CheckoutOncePerCart == [][C21_CheckoutStep]_vars

\* Both cases have happened: a cart was sold, then handleCheckout was called
\* on the empty cart it left.
C21_Witness ==
    /\ ev.op = "handleCheckout"
    /\ cart = <<>>
    /\ Len(sales) = 1
\* C22: addToCart leaves the cart and the selection as they are when no
\* product is selected, when the quantity is 0 or negative, or when it
\* exceeds the selected product's stock; when it accepts a product that has
\* no line in the cart it appends one line with the entered quantity and
\* resets the selection: no product, quantity 1, empty search.
C22_AddToCartStep ==
    ev'.op = "addToCart" =>
        /\ (selectedProduct = Null
              \/ qtyInput <= 0
              \/ qtyInput > selectedProduct.quantity) =>
               UNCHANGED <<cart, searchTerm, selectedProduct, qtyInput>>
        /\ (/\ selectedProduct # Null
            /\ qtyInput > 0
            /\ qtyInput <= selectedProduct.quantity
            /\ \A i \in DOMAIN cart : cart[i].itemId # selectedProduct.id) =>
               /\ Len(cart') = Len(cart) + 1
               /\ SubSeq(cart', 1, Len(cart)) = cart
               /\ cart'[Len(cart')].itemId = selectedProduct.id
               /\ cart'[Len(cart')].quantity = qtyInput
               /\ selectedProduct' = Null
               /\ qtyInput' = 1
               /\ searchTerm' = <<>>

C22_AddToCartRejectsOrAppends == [][C22_AddToCartStep]_vars

\* A selected product without a line in the cart was accepted as the cart's
\* second line.
C22_Witness ==
    /\ ev.op = "addToCart" /\ ev.res = "accepted"
    /\ Len(cart) = 2
    /\ cart[1].itemId # cart[2].itemId
    /\ selectedProduct = Null
\* C23: a stock adjustment with a non-numeric or negative quantity issues no
\* update, shows an alert and keeps the dialog open; a valid one calls the
\* update for the dialog's item with only the quantity field and closes the
\* dialog.
\* The text is a decimal numeral: an optional sign, digits, and optionally a
\* point followed by digits.
IsNumeral(text) ==
    LET unsigned == IF text # <<>> /\ Head(text) = "-" THEN Tail(text) ELSE text
        points == {i \in DOMAIN unsigned : unsigned[i] = "."}
    IN /\ unsigned # <<>>
       /\ \A i \in DOMAIN unsigned : IsDigit(unsigned[i]) \/ i \in points
       /\ Cardinality(points) <= 1
       /\ \A i \in points : 1 < i /\ i < Len(unsigned)

\* The numeral denotes a number below zero.
IsNegativeNumeral(text) ==
    /\ IsNumeral(text)
    /\ Head(text) = "-"
    /\ \E i \in DOMAIN text : IsDigit(text[i]) /\ text[i] # "0"

Submitted ==
    adjustItem # Null /\ ev'.op \in {"handleStockAdjustment", "handleUpdateItem"}

C23_InvalidStep ==
    (Submitted /\ (~IsNumeral(adjustQty) \/ IsNegativeNumeral(adjustQty))) =>
        /\ tasks' = tasks
        /\ inventory' = inventory
        /\ ev'.alert = "Please enter a valid non-negative quantity."
        /\ adjustItem' = adjustItem

C23_ValidStep ==
    (Submitted /\ IsNumeral(adjustQty) /\ ~IsNegativeNumeral(adjustQty)) =>
        /\ Cardinality(tasks' \ tasks) = 1
        /\ \A t \in tasks' \ tasks :
               /\ t.fn = "handleUpdateItem"
               /\ t.itemId = adjustItem.id
               /\ DOMAIN t.finalUpdates = {"quantity", "lastUpdated"}
        /\ adjustItem' = Null

C23_InvalidAdjustmentRejected == [][C23_InvalidStep]_vars

C23_ValidAdjustmentUpdates == [][C23_ValidStep]_vars
\* C24: handleUpdateItem changes only the inventory item whose id matches:
\* it keeps every field the update does not name, takes the update's value
\* for every field it names and gets a new lastUpdated; every other item, the
\* number of items and the sales are unchanged, and an id that matches no
\* item changes nothing locally.
C24_UpdateStep ==
    ev'.op = "handleUpdateItem" =>
        /\ Cardinality(tasks' \ tasks) = 1
        /\ \A t \in tasks' \ tasks :
             /\ Len(inventory') = Len(inventory)
             /\ sales' = sales
             /\ \A i \in DOMAIN inventory :
                  IF inventory[i].id = t.itemId
                  THEN /\ DOMAIN inventory'[i] =
                              DOMAIN inventory[i] \cup DOMAIN t.finalUpdates
                       /\ \A f \in DOMAIN inventory[i] \ DOMAIN t.finalUpdates :
                              inventory'[i][f] = inventory[i][f]
                       /\ \A f \in DOMAIN t.finalUpdates \ {"lastUpdated"} :
                              inventory'[i][f] = t.finalUpdates[f]
                       /\ inventory'[i].lastUpdated = ToISOString(now')
                       /\ GetTime(inventory'[i].lastUpdated) >
                              GetTime(inventory[i].lastUpdated)
                  ELSE inventory'[i] = inventory[i]
             /\ (\A i \in DOMAIN inventory : inventory[i].id # t.itemId) =>
                    inventory' = inventory

C24_UpdateTouchesOneItem == [][C24_UpdateStep]_vars

\* An update of one item and an update for an id no item has have both run,
\* over a recorded sale.
C24_Witness ==
    /\ ev.op = "handleUpdateItem"
    /\ sales # <<>>
    /\ \E t, u \in tasks :
          /\ t.fn = "handleUpdateItem" /\ u.fn = "handleUpdateItem"
          /\ FindItem(inventory, t.itemId) # Null
          /\ FindItem(inventory, u.itemId) = Null

\* C25: handleDeleteItem changes nothing locally and issues no remote call
\* when the confirmation is declined; when it is confirmed it removes exactly
\* the item with the given id from the local inventory, leaves the other
\* items and the sales unchanged, and issues one remote delete for that id.
C25_DeleteStep ==
    /\ (ev'.op = "handleDeleteItem" /\ ev'.res = "declined") =>
           UNCHANGED <<inventory, sales, tasks, remoteInventory, remoteSales>>
    /\ (ev'.op = "handleDeleteItem" /\ ev'.res # "declined") =>
           /\ Cardinality(tasks' \ tasks) = 1
           /\ tasks \subseteq tasks'
           /\ \A t \in tasks' \ tasks :
                /\ t.fn = "handleDeleteItem"
                /\ \A i \in DOMAIN inventory' : inventory'[i].id # t.itemId
                /\ inventory' =
                      SelectSeq(inventory, LAMBDA item : item.id # t.itemId)
                /\ Len(inventory) - Len(inventory') =
                      Cardinality({i \in DOMAIN inventory :
                                      inventory[i].id = t.itemId})
           /\ sales' = sales
           /\ UNCHANGED <<remoteInventory, remoteSales>>
    /\ ev'.op = "handleDeleteItem.delete" =>
           \A t \in tasks : (t.fn = "handleDeleteItem" /\ t.id = ev'.task) =>
               /\ t \notin tasks'
               /\ remoteInventory' =
                     IF ev'.res = "ok"
                     THEN SelectSeq(remoteInventory,
                                    LAMBDA row : row.id # t.itemId)
                     ELSE remoteInventory

C25_DeleteRemovesOneItem == [][C25_DeleteStep]_vars

\* A confirmed delete of a stocked item has reached the remote table and a
\* declined one has followed.
C25_Witness ==
    /\ ev.op = "handleDeleteItem" /\ ev.res = "declined"
    /\ Len(inventory) = Len(SeedInventory) - 1
    /\ Len(remoteInventory) = Len(SeedInventory) - 1
    /\ tasks = {}
\* C26: every fetchData call sets loading when it starts and clears it in
\* the end, whether its selects succeed or fail: once every fetch has
\* returned the loading screen is not shown.
FetchTasks == {t \in tasks : t.fn = "fetchData"}

C26_NoFetchNoLoading == FetchTasks = {} => ~loading

C26_FetchStartSetsLoading ==
    (\E t \in tasks' \ tasks : t.fn = "fetchData" /\ t.stage = "inventory") =>
        loading'

C26_LoadingEnds ==
    /\ []C26_NoFetchNoLoading
    /\ [][C26_FetchStartSetsLoading]_vars
    /\ []((FetchTasks # {}) => <>(FetchTasks = {} /\ ~loading))
    /\ (loading ~> ~loading)

\* The refetch after a failed write has itself failed, and the views are
\* shown again.
C26_Witness ==
    /\ ev.op = "fetchData.inventory" /\ ev.res = "error" /\ ev.task # 0
    /\ FetchTasks = {}
    /\ ~loading
\* C27: the history lists exactly the sales that have an item whose name
\* contains the search term, letter case aside (every sale when the term is
\* empty), and whose timestamp lies between the start of the start date and
\* the end of the end date when these are set; it lists them newest first,
\* and the revenue and profit shown are the sums over the listed sales.
Listed(sale) ==
    \E j \in DOMAIN HistoryFilteredSales : HistoryFilteredSales[j] = sale

\* The day of the date input, in the time of the browser that shows it.
WithinDay(sale, from, to) ==
    /\ from # Null =>
          GetTime(sale.timestamp) >= LocalMidnight(from.date, timezone)
    /\ to # Null =>
          GetTime(sale.timestamp) < LocalMidnight(to.date + 1, timezone)

C27_ListsSalesOfTheDates ==
    \A i \in DOMAIN sales :
        Listed(sales[i]) <=>
            /\ MatchesSearch(sales[i])
            /\ WithinDay(sales[i], listStartDate, listEndDate)

RECURSIVE SumOfListed(_, _)
SumOfListed(rows, field) ==
    IF rows = <<>> THEN 0
    ELSE (IF Listed(Head(rows)) THEN Head(rows)[field] ELSE 0)
            + SumOfListed(Tail(rows), field)

C27_NewestFirstAndTotals ==
    /\ \A j, k \in DOMAIN HistoryFilteredSales :
          j < k => GetTime(HistoryFilteredSales[j].timestamp)
                      >= GetTime(HistoryFilteredSales[k].timestamp)
    /\ Len(HistoryFilteredSales) =
          Cardinality({i \in DOMAIN sales : Listed(sales[i])})
    /\ HistoryTotalRevenue = SumOfListed(sales, "totalAmount")
    /\ HistoryTotalProfit = SumOfListed(sales, "totalProfit")
\* C28: in the expenses view every filtered expense is counted in exactly
\* one category total, the category totals add up to the total of the
\* filtered expenses, and the average is that total divided by their
\* number, or 0 when there is none.
RECURSIVE SumOfAmounts(_)
SumOfAmounts(S) ==
    IF S = {} THEN 0
    ELSE LET exp == CHOOSE e \in S : TRUE
         IN exp.amount + SumOfAmounts(S \ {exp})

Filtered == Range(ManagerFilteredExpenses)

C28_CategoryTotals ==
    /\ \A exp \in Filtered :
          Cardinality({k \in DOMAIN CategoryData :
                          CategoryData[k].name = exp.category}) = 1
    /\ \A k \in DOMAIN CategoryData :
          CategoryData[k].value =
              SumOfAmounts({exp \in Filtered :
                               exp.category = CategoryData[k].name})
    /\ ReduceSum([k \in DOMAIN CategoryData |-> CategoryData[k].value], 0)
          = TotalExpenses
    /\ TotalExpenses = SumOfAmounts(Filtered)
    /\ IF Filtered = {} THEN AvgExpense = Quotient(0, 1)
       ELSE /\ IsDefined(AvgExpense)
            /\ AvgExpense.num = SumOfAmounts(Filtered)
            /\ AvgExpense.den = Cardinality(Filtered)

\* Three expenses pass a category filter and fall into one category total.
C28_Witness ==
    /\ selectedCategory = "Rent"
    /\ Len(expenses) = 3
    /\ Len(ManagerFilteredExpenses) = 3
    /\ Len(CategoryData) = 1

====
